---- MODULE Spec2Model ----
(***************************************************************************)
(* A model of the MacOsSay facade (src/src/mod.ts, the class that starts   *)
(* at line 261): the option-to-argument translation, the fluent setters,   *)
(* the deferred execution handle, and the voice catalog with its cache.    *)
(*                                                                         *)
(* Strings are sequences of one-character strings, so that quoting,        *)
(* joining, decimal rendering, trimming and the locale pattern are         *)
(* computed character by character.  A nullable value is a sequence of     *)
(* length at most one: Null is the empty sequence, Some(v) is <<v>>.       *)
(***************************************************************************)
EXTENDS Integers, Sequences, FiniteSets

VARIABLES
  inst,             \* TRUE once a MacOsSay instance has been constructed
  options,          \* the instance's private options record
  desc,             \* the descriptor the caller holds (Null when none)
  calls,            \* the process executor's invocation log
  voicesCache,      \* static MacOsSay.voicesCache
  voicesCacheTime,  \* static MacOsSay.voicesCacheTime
  now,              \* the wall clock read by Date.now()
  gv,               \* per caller: position inside getVoices
  ret,              \* per caller: what its getVoices call returned or threw (none while pending)
  hist,             \* history of the catalog: the latest start among the fetches that
                    \* returned since the last invalidation, and whether an
                    \* invalidation is still waiting for its first getVoices call
  fs,               \* the file system: per path the file's text (Null when there is
                    \* no file) and, as history, the config of the saveConfig call
                    \* that wrote it (Null when something else wrote it)
  last              \* the last operation: its name, its argument, whether it threw

vars ==
  <<inst, options, desc, calls, voicesCache, voicesCacheTime, now, gv, ret, hist, fs,
    last>>

facadeVars == <<inst, options, desc>>
catalogVars == <<voicesCache, voicesCacheTime, now, gv, ret, hist>>

----------------------------------------------------------------------------
(* Nullable values *)

Null == <<>>
Some(v) == <<v>>
Val(o) == o[1]

\* JavaScript truthiness of a nullable string: null and "" are falsy.
TruthyStr(o) == o # Null /\ Len(Val(o)) > 0

\* JavaScript truthiness of a nullable number: null and 0 are falsy.
TruthyNum(o) == o # Null /\ Val(o) # 0

\* `x || null` on an optional string argument.
StrOrNull(o) == IF TruthyStr(o) THEN o ELSE Null

----------------------------------------------------------------------------
(* Bounds and input sets *)

MaxCalls == 2
MaxLines == 2
MaxFetches == 3
MaxTexts == 3
MaxBatchCalls == 4
MaxTextLen == 4

Procs == {1, 2}

Paths == {<<"p">>, <<"q">>}

S_Al == <<"A", "l">>
S_hi == <<"h", " ", "i">>
S_empty == <<>>

VoiceNames == {S_empty, S_Al}
RateInputs == {-1, 0, 1, 12}
QualityInputs == {-1, 0, 127, 128}
Texts == {S_empty, S_hi}
Files == {<<"f">>}

\* the optional inputs of the constructor's options and of the setters
OptVoice == {Null} \cup {Some(v) : v \in VoiceNames}
OptRate == {Null} \cup {Some(r) : r \in RateInputs}
OptQuality == {Null} \cup {Some(q) : q \in QualityInputs}
OptOutputFile == {Null, Some(<<"o">>)}
OptNetwork == {Null, Some(<<"n">>)}
OptAudioDevice == {Null, Some(<<"d">>)}
OptFileFormat == {Null, Some(<<"m">>)}

CtorInputs ==
  [voice : OptVoice, rate : OptRate, quality : OptQuality,
   outputFile : OptOutputFile, network : OptNetwork,
   audioDeviceID : OptAudioDevice, fileFormat : OptFileFormat]

----------------------------------------------------------------------------
(* String rendering *)

Digits == <<"0", "1", "2", "3", "4", "5", "6", "7", "8", "9">>

RECURSIVE ToString(_)
\* Number.prototype.toString() / template interpolation of an integer
ToString(n) ==
  IF n < 0 THEN <<"-">> \o ToString(0 - n)
  ELSE IF n < 10 THEN <<Digits[n + 1]>>
  ELSE ToString(n \div 10) \o <<Digits[(n % 10) + 1]>>

RECURSIVE JoinTwoSpaces(_, _)
JoinTwoSpaces(toks, sep) ==
  IF Len(toks) = 0 THEN <<>>
  ELSE IF Len(toks) = 1 THEN toks[1]
  ELSE toks[1] \o sep \o sep \o JoinTwoSpaces(Tail(toks), sep)

RECURSIVE Join(_, _)
\* Array.prototype.join(sep)
Join(toks, sep) ==
  IF Len(toks) = 0 THEN <<>>
  ELSE IF Len(toks) = 1 THEN toks[1]
  ELSE toks[1] \o sep \o Join(Tail(toks), sep)

S_say == <<"s", "a", "y">>
S_space == <<" ">>
S_quote == <<"\"">>
F_v == <<"-", "v">>
F_r == <<"-", "r">>
F_o == <<"-", "o">>
F_n == <<"-", "n">>
F_a == <<"-", "a">>
F_f == <<"-", "f">>
F_quality == <<"-", "-", "q", "u", "a", "l", "i", "t", "y", "=">>
F_fileFormat == <<"-", "-", "f", "i", "l", "e", "-", "f", "o", "r", "m", "a", "t", "=">>

----------------------------------------------------------------------------
(* The option translator *)

DefaultOptions ==
  [voice |-> Null, rate |-> Null, quality |-> Null, outputFile |-> Null,
   network |-> Null, audioDeviceID |-> Null, fileFormat |-> Null]

VoiceArgs(o) ==
  IF TruthyStr(o.voice) THEN <<F_v, S_quote \o Val(o.voice) \o S_quote>> ELSE <<>>

RateArgs(o) ==
  IF TruthyNum(o.rate) THEN <<F_r, ToString(Val(o.rate))>> ELSE <<>>

QualityArgs(o) ==
  IF TruthyNum(o.quality) THEN <<F_quality \o ToString(Val(o.quality))>> ELSE <<>>

OutputFileArgs(o) ==
  IF TruthyStr(o.outputFile) THEN <<F_o, Val(o.outputFile)>> ELSE <<>>

NetworkArgs(o) ==
  IF TruthyStr(o.network) THEN <<F_n, Val(o.network)>> ELSE <<>>

AudioDeviceArgs(o) ==
  IF TruthyStr(o.audioDeviceID) THEN <<F_a, Val(o.audioDeviceID)>> ELSE <<>>

FileFormatArgs(o) ==
  IF TruthyStr(o.fileFormat) THEN <<F_fileFormat \o Val(o.fileFormat)>> ELSE <<>>

\* the pushes of getArgs, in the order of the source
OptionArgs(o) ==
  VoiceArgs(o) \o RateArgs(o) \o QualityArgs(o) \o OutputFileArgs(o)
    \o NetworkArgs(o) \o AudioDeviceArgs(o) \o FileFormatArgs(o)

GetArgs(o, suffixArgs) ==
  LET outputArgs == OptionArgs(o) \o suffixArgs
  IN  [args |-> outputArgs,
       command |-> S_say \o S_space \o Join(outputArgs, S_space)]

----------------------------------------------------------------------------
(* Construction *)

\* the constructor's rate check: the condition under which it throws
CtorRateThrows(rate) == TruthyNum(rate) /\ Val(rate) < 1

CtorQualityClampMin(quality) ==
  IF TruthyNum(quality) /\ Val(quality) < 0 THEN Some(0)
  ELSE IF TruthyNum(quality) /\ Val(quality) > 127 THEN Some(127)
  ELSE quality

\* the constructor's quality correction
CtorQuality(quality) ==
  IF TruthyNum(quality) /\ Val(quality) < 0 THEN Some(1)
  ELSE IF TruthyNum(quality) /\ Val(quality) > 127 THEN Some(127)
  ELSE quality

\* new MacOsSay(o) as a function: the spread of o over the defaults, then the
\* rate check and the quality correction
Construct(o) ==
  IF CtorRateThrows(o.rate)
    THEN [threw |-> TRUE, options |-> DefaultOptions]
    ELSE [threw |-> FALSE, options |-> [o EXCEPT !.quality = CtorQuality(o.quality)]]

\* the caller constructs the instance
New(o) ==
  /\ ~inst
  /\ LET c == Construct(o)
     IN  /\ inst' = ~c.threw
         /\ options' = c.options
         /\ last' = [op |-> "new", arg |-> o, threw |-> c.threw]
  /\ UNCHANGED <<desc, calls, catalogVars, fs>>

\* the options fromConfig passes to the constructor
ConfigOptions(config) ==
  [DefaultOptions EXCEPT
     !.voice = IF TruthyStr(config.defaultVoice) THEN config.defaultVoice ELSE Null,
     !.rate = IF TruthyNum(config.defaultRate) THEN config.defaultRate ELSE Null,
     !.quality = IF TruthyNum(config.defaultQuality) THEN config.defaultQuality ELSE Null,
     !.audioDeviceID =
        IF TruthyStr(config.defaultAudioDevice) THEN config.defaultAudioDevice ELSE Null]

\* MacOsSay.fromConfig(config); the constructor's throw leaves the cache alone
FromConfig(config) ==
  /\ ~inst
  /\ LET c == Construct(ConfigOptions(config))
     IN  /\ inst' = ~c.threw
         /\ options' = c.options
         /\ last' = [op |-> "fromConfig", arg |-> config, threw |-> c.threw]
         /\ IF ~c.threw /\ config.cacheVoices = Some(FALSE)
              THEN /\ voicesCache' = Null /\ voicesCacheTime' = 0
                   /\ hist' = [fetched |-> Null, cleared |-> TRUE]
              ELSE UNCHANGED <<voicesCache, voicesCacheTime, hist>>
  /\ UNCHANGED <<desc, calls, now, gv, ret, fs>>

\* the MacOsSayOutput of say()/sayFile(): cmd is the Command the exec closure holds
Descriptor(o, suffixArgs) ==
  LET d == GetArgs(o, suffixArgs)
  IN  [command |-> d.command, args |-> d.args,
       cmd |-> [prog |-> S_say, args |-> d.args]]

----------------------------------------------------------------------------
(* The fluent setters *)

Max(a, b) == IF a >= b THEN a ELSE b
Min(a, b) == IF a <= b THEN a ELSE b

SetRateValueKeepsOne(rate) == IF rate # Null THEN Some(Max(1, Val(rate))) ELSE Some(1)

\* typeof rate === "number" ? Math.max(1, rate) : null
SetRateValue(rate) == IF rate # Null THEN Some(Max(1, Val(rate))) ELSE Null

\* typeof quality === "number" ? Math.max(0, Math.min(127, quality)) : null
SetQualityValue(quality) ==
  IF quality # Null THEN Some(Max(0, Min(127, Val(quality)))) ELSE Null

SetVoiceLive(voice) ==
  /\ inst
  /\ options' = [options EXCEPT !.voice = StrOrNull(voice)]
  /\ desc' = IF desc = Null THEN Null
             ELSE Some(Descriptor([options EXCEPT !.voice = StrOrNull(voice)],
                                  <<Val(desc).args[Len(Val(desc).args)]>>))
  /\ last' = [op |-> "setVoice", arg |-> voice, threw |-> FALSE]
  /\ UNCHANGED <<inst, calls, catalogVars, fs>>

SetVoice(voice) ==
  /\ inst
  /\ options' = [options EXCEPT !.voice = StrOrNull(voice)]
  /\ last' = [op |-> "setVoice", arg |-> voice, threw |-> FALSE]
  /\ UNCHANGED <<inst, desc, calls, catalogVars, fs>>

SetRate(rate) ==
  /\ inst
  /\ options' = [options EXCEPT !.rate = SetRateValue(rate)]
  /\ last' = [op |-> "setRate", arg |-> rate, threw |-> FALSE]
  /\ UNCHANGED <<inst, desc, calls, catalogVars, fs>>

SetQuality(quality) ==
  /\ inst
  /\ options' = [options EXCEPT !.quality = SetQualityValue(quality)]
  /\ last' = [op |-> "setQuality", arg |-> quality, threw |-> FALSE]
  /\ UNCHANGED <<inst, desc, calls, catalogVars, fs>>

SetOutputFile(outputFile) ==
  /\ inst
  /\ options' = [options EXCEPT !.outputFile = StrOrNull(outputFile)]
  /\ last' = [op |-> "setOutputFile", arg |-> outputFile, threw |-> FALSE]
  /\ UNCHANGED <<inst, desc, calls, catalogVars, fs>>

SetNetwork(network) ==
  /\ inst
  /\ options' = [options EXCEPT !.network = StrOrNull(network)]
  /\ last' = [op |-> "setNetwork", arg |-> network, threw |-> FALSE]
  /\ UNCHANGED <<inst, desc, calls, catalogVars, fs>>

SetAudioDeviceID(audioDeviceID) ==
  /\ inst
  /\ options' = [options EXCEPT !.audioDeviceID = StrOrNull(audioDeviceID)]
  /\ last' = [op |-> "setAudioDeviceID", arg |-> audioDeviceID, threw |-> FALSE]
  /\ UNCHANGED <<inst, desc, calls, catalogVars, fs>>

SetFileFormat(fileFormat) ==
  /\ inst
  /\ options' = [options EXCEPT !.fileFormat = StrOrNull(fileFormat)]
  /\ last' = [op |-> "setFileFormat", arg |-> fileFormat, threw |-> FALSE]
  /\ UNCHANGED <<inst, desc, calls, catalogVars, fs>>

----------------------------------------------------------------------------
(* Building a descriptor, and its deferred execution *)

SayEager(text) ==
  /\ inst
  /\ Len(calls) < MaxCalls
  /\ desc' = Some(Descriptor(options, <<text>>))
  /\ calls' = Append(calls, Descriptor(options, <<text>>).cmd)
  /\ last' = [op |-> "say", arg |-> text, threw |-> FALSE]
  /\ UNCHANGED <<inst, options, catalogVars, fs>>

Say(text) ==
  /\ inst
  /\ desc' = Some(Descriptor(options, <<text>>))
  /\ last' = [op |-> "say", arg |-> text, threw |-> FALSE]
  /\ UNCHANGED <<inst, options, calls, catalogVars, fs>>

SayFile(file) ==
  /\ inst
  /\ desc' = Some(Descriptor(options, <<F_f, file>>))
  /\ last' = [op |-> "sayFile", arg |-> file, threw |-> FALSE]
  /\ UNCHANGED <<inst, options, calls, catalogVars, fs>>

\* the caller invokes the exec handle of the descriptor it holds: cmd.output()
Exec ==
  /\ desc # Null
  /\ Len(calls) < MaxCalls
  /\ calls' = Append(calls, Val(desc).cmd)
  /\ last' = [op |-> "exec", arg |-> Null, threw |-> FALSE]
  /\ UNCHANGED <<inst, options, desc, catalogVars, fs>>

\* the caller drops the descriptor it holds
Discard ==
  /\ desc # Null
  /\ desc' = Null
  /\ last' = [op |-> "discard", arg |-> Null, threw |-> FALSE]
  /\ UNCHANGED <<inst, options, calls, catalogVars, fs>>

----------------------------------------------------------------------------
(* The voice catalog: the parser *)

LowerCase ==
  {"a", "b", "c", "d", "e", "f", "g", "h", "i", "j", "k", "l", "m",
   "n", "o", "p", "q", "r", "s", "t", "u", "v", "w", "x", "y", "z"}

UpperCase ==
  {"A", "B", "C", "D", "E", "F", "G", "H", "I", "J", "K", "L", "M",
   "N", "O", "P", "Q", "R", "S", "T", "U", "V", "W", "X", "Y", "Z"}

WhiteSpace == {" ", "\t"}

LocaleLen == 5

\* the pattern /[a-z]{2}_[A-Z]{2}/ matches the characters of line at i..i+4
MatchesAt(line, i) ==
  /\ i >= 1
  /\ i + LocaleLen - 1 <= Len(line)
  /\ line[i] \in LowerCase
  /\ line[i + 1] \in LowerCase
  /\ line[i + 2] = "_"
  /\ line[i + 3] \in UpperCase
  /\ line[i + 4] \in UpperCase

RECURSIVE FindFrom(_, _)
\* the regular expression's scan: the leftmost match at or after i, 0 when none
FindFrom(line, i) ==
  IF i + LocaleLen - 1 > Len(line) THEN 0
  ELSE IF MatchesAt(line, i) THEN i
  ELSE FindFrom(line, i + 1)

\* line.match(/[a-z]{2}_[A-Z]{2}/): the index of the first match, 0 for null
Match(line) == FindFrom(line, 1)

RECURSIVE SplitFrom(_, _)
\* line.split(/[a-z]{2}_[A-Z]{2}/): the pieces between all the matches
SplitFrom(line, start) ==
  LET i == FindFrom(line, start)
  IN  IF i = 0
        THEN <<SubSeq(line, start, Len(line))>>
        ELSE <<SubSeq(line, start, i - 1)>> \o SplitFrom(line, i + LocaleLen)

Split(line) == SplitFrom(line, 1)

RECURSIVE TrimStart(_)
TrimStart(s) ==
  IF Len(s) > 0 /\ s[1] \in WhiteSpace THEN TrimStart(Tail(s)) ELSE s

RECURSIVE TrimEnd(_)
TrimEnd(s) ==
  IF Len(s) > 0 /\ s[Len(s)] \in WhiteSpace
    THEN TrimEnd(SubSeq(s, 1, Len(s) - 1))
    ELSE s

\* String.prototype.trim()
Trim(s) == TrimEnd(TrimStart(s))

S_marker == <<"#", " ">>

\* example.replace(/^# /, "")
StripMarker(s) ==
  IF Len(s) >= Len(S_marker) /\ SubSeq(s, 1, Len(S_marker)) = S_marker
    THEN SubSeq(s, Len(S_marker) + 1, Len(s))
    ELSE s

\* the Voice built from a line that has a match
ParseLine(line) ==
  LET i == Match(line)
      parts == Split(line)
  IN  [name |-> Trim(parts[1]),
       locale |-> SubSeq(line, i, i + LocaleLen - 1),
       example |-> StripMarker(Trim(parts[2]))]

RECURSIVE ParseLinesStopAtMiss(_)
ParseLinesStopAtMiss(lines) ==
  IF Len(lines) = 0 THEN <<>>
  ELSE IF Match(Head(lines)) # 0
    THEN <<ParseLine(Head(lines))>> \o ParseLinesStopAtMiss(Tail(lines))
    ELSE <<>>

RECURSIVE ParseLines(_)
\* the loop of getVoices over output.lines()
ParseLines(lines) ==
  IF Len(lines) = 0 THEN <<>>
  ELSE (IF Match(Head(lines)) # 0 THEN <<ParseLine(Head(lines))>> ELSE <<>>)
         \o ParseLines(Tail(lines))

----------------------------------------------------------------------------
(* The voice catalog: getVoices and its cache *)

CACHE_DURATION == 300000

NoCall == [pc |-> "idle", now |-> 0]
NoReturn == [kind |-> "none", voices |-> <<>>, error |-> <<>>, code |-> ""]

S_voicesQuery == <<"?">>

S_failedVoices ==
  <<"F", "a", "i", "l", "e", "d", " ", "t", "o", " ", "g", "e", "t", " ",
    "v", "o", "i", "c", "e", "s", ":", " ">>

\* new Command("say", ["-v", "?"])
VoicesCommand == [prog |-> S_say, args |-> <<F_v, S_voicesQuery>>]

VoicesFetchErrorNoText(errorText) ==
  [kind |-> "error", voices |-> <<>>, error |-> S_failedVoices,
   code |-> "VOICES_FETCH_ERROR"]

\* new MacOsSayError(`Failed to get voices: ${output.errorText()}`, "VOICES_FETCH_ERROR")
VoicesFetchError(errorText) ==
  [kind |-> "error", voices |-> <<>>, error |-> S_failedVoices \o errorText,
   code |-> "VOICES_FETCH_ERROR"]

\* the later of a recorded fetch start (if any) and the start t
LaterFetch(f, t) == IF f # Null /\ Val(f) >= t THEN f ELSE Some(t)

\* the cache check at the head of getVoices
CacheFresh(t) ==
  voicesCache # Null /\ (t - voicesCacheTime) < CACHE_DURATION

\* getVoices up to its await: a cache hit returns, a miss invokes the executor
GetVoicesStart(p) ==
  /\ gv[p].pc = "idle"
  /\ IF CacheFresh(now)
       THEN /\ ret' = [ret EXCEPT ![p] =
                         [kind |-> "voices", voices |-> Val(voicesCache),
                          error |-> <<>>, code |-> ""]]
            /\ UNCHANGED <<gv, calls>>
       ELSE /\ Len(calls) < MaxFetches
            /\ calls' = Append(calls, VoicesCommand)
            /\ gv' = [gv EXCEPT ![p] = [pc |-> "await", now |-> now]]
            /\ ret' = [ret EXCEPT ![p] = NoReturn]
  /\ hist' = [hist EXCEPT !.cleared = FALSE]
  /\ last' = [op |-> "getVoices", arg |-> p, threw |-> FALSE]
  /\ UNCHANGED <<facadeVars, fs, voicesCache, voicesCacheTime, now>>

FetchCompleteResetsOnFailure(p, output) ==
  IF ~output.success
    THEN /\ voicesCache' = Null
         /\ voicesCacheTime' = 0
         /\ hist' = hist
    ELSE /\ voicesCache' = Some(ParseLines(output.lines))
         /\ voicesCacheTime' = gv[p].now
         /\ hist' = [hist EXCEPT !.fetched = LaterFetch(hist.fetched, gv[p].now)]

\* the part of getVoices after its await that writes the cache, for the
\* getVoices call made on behalf of caller p
FetchComplete(p, output) ==
  IF ~output.success
    THEN UNCHANGED <<voicesCache, voicesCacheTime, hist>>
    ELSE /\ voicesCache' = Some(ParseLines(output.lines))
         /\ voicesCacheTime' = gv[p].now
         /\ hist' = [hist EXCEPT !.fetched = LaterFetch(hist.fetched, gv[p].now)]

\* getVoices after its await: the executor's output arrives
GetVoicesResume(p, output) ==
  /\ gv[p].pc = "await"
  /\ FetchComplete(p, output)
  /\ ret' = [ret EXCEPT ![p] =
               IF ~output.success
                 THEN VoicesFetchError(output.errorText)
                 ELSE [kind |-> "voices", voices |-> ParseLines(output.lines),
                       error |-> <<>>, code |-> ""]]
  /\ gv' = [gv EXCEPT ![p] = NoCall]
  /\ last' = [op |-> "getVoicesResume", arg |-> [p |-> p, output |-> output],
              threw |-> ~output.success]
  /\ UNCHANGED <<facadeVars, fs, calls, now>>

ClearVoicesCache ==
  /\ voicesCache' = Null
  /\ voicesCacheTime' = 0
  /\ hist' = [fetched |-> Null, cleared |-> TRUE]
  /\ last' = [op |-> "clearVoicesCache", arg |-> Null, threw |-> FALSE]
  /\ UNCHANGED <<facadeVars, fs, calls, now, gv, ret>>

----------------------------------------------------------------------------
(* Validation against the catalog *)

S_voiceNotFoundHead ==
  <<"V", "o", "i", "c", "e", " ", "\"">>

S_voiceNotFoundTail ==
  <<"\"", " ", "n", "o", "t", " ", "f", "o", "u", "n", "d", " ", "o", "n",
    " ", "t", "h", "i", "s", " ", "s", "y", "s", "t", "e", "m">>

S_rateMessage ==
  <<"R", "a", "t", "e", " ", "m", "u", "s", "t", " ", "b", "e", " ", "g",
    "r", "e", "a", "t", "e", "r", " ", "t", "h", "a", "n", " ", "o", "r",
    " ", "e", "q", "u", "a", "l", " ", "t", "o", " ", "1">>

S_qualityMessage ==
  <<"Q", "u", "a", "l", "i", "t", "y", " ", "m", "u", "s", "t", " ", "b",
    "e", " ", "b", "e", "t", "w", "e", "e", "n", " ", "0", " ", "a", "n",
    "d", " ", "1", "2", "7">>

S_null ==
  <<"n", "u", "l", "l">>

\* template interpolation of a nullable string
Interpolate(o) == IF o = Null THEN S_null ELSE Val(o)

\* validateVoice on a catalog: voices.some((voice) => voice.name === voiceName)
VoiceExists(voices, voiceName) ==
  \E i \in 1..Len(voices) : voices[i].name = voiceName

\* `Voice "${voice}" not found on this system`
VoiceNotFoundMessage(voice) == S_voiceNotFoundHead \o voice \o S_voiceNotFoundTail

\* new VoiceNotFoundError(voice)
VoiceNotFoundError(voice) ==
  [kind |-> "error", voices |-> <<>>, error |-> VoiceNotFoundMessage(voice),
   code |-> "VOICE_NOT_FOUND"]

\* the errors validateOptions collects from the options o; voiceValid is the
\* answer of validateVoice, TRUE when the voice check is skipped
ValidationErrors(o, voiceValid) ==
  (IF ~voiceValid THEN <<VoiceNotFoundMessage(Interpolate(o.voice))>> ELSE <<>>)
    \o (IF o.rate # Null /\ Val(o.rate) < 1 THEN <<S_rateMessage>> ELSE <<>>)
    \o (IF o.quality # Null /\ (Val(o.quality) < 0 \/ Val(o.quality) > 127)
          THEN <<S_qualityMessage>> ELSE <<>>)

\* the ValidationResult validateOptions returns
ValidationResult(o, voiceValid) ==
  [kind |-> "validation",
   isValid |-> Len(ValidationErrors(o, voiceValid)) = 0,
   errors |-> ValidationErrors(o, voiceValid)]

\* validateOptions up to its await: without a truthy voice it answers at
\* once, with one it asks validateVoice, which asks getVoices
ValidateOptionsStart(p) ==
  /\ inst
  /\ gv[p].pc = "idle"
  /\ IF ~TruthyStr(options.voice)
       THEN /\ ret' = [ret EXCEPT ![p] = ValidationResult(options, TRUE)]
            /\ UNCHANGED <<gv, calls, hist>>
       ELSE /\ hist' = [hist EXCEPT !.cleared = FALSE]
            /\ IF CacheFresh(now)
                 THEN /\ ret' = [ret EXCEPT ![p] =
                                   ValidationResult(options,
                                     VoiceExists(Val(voicesCache), Val(options.voice)))]
                      /\ UNCHANGED <<gv, calls>>
                 ELSE /\ Len(calls) < MaxFetches
                      /\ calls' = Append(calls, VoicesCommand)
                      /\ gv' = [gv EXCEPT ![p] =
                                  [pc |-> "validateOptions", now |-> now,
                                   voice |-> Val(options.voice)]]
                      /\ ret' = [ret EXCEPT ![p] = NoReturn]
  /\ last' = [op |-> "validateOptions", arg |-> [p |-> p], threw |-> FALSE]
  /\ UNCHANGED <<facadeVars, fs, voicesCache, voicesCacheTime, now>>

\* validateOptions after its await: getVoices' throw passes through
\* validateVoice and validateOptions; otherwise the checks run on the options
\* as they are now
ValidateOptionsResume(p, output) ==
  /\ gv[p].pc = "validateOptions"
  /\ FetchComplete(p, output)
  /\ ret' = [ret EXCEPT ![p] =
               IF ~output.success
                 THEN VoicesFetchError(output.errorText)
                 ELSE ValidationResult(options,
                        VoiceExists(ParseLines(output.lines), gv[p].voice))]
  /\ gv' = [gv EXCEPT ![p] = NoCall]
  /\ last' = [op |-> "validateOptionsResume", arg |-> [p |-> p, output |-> output],
              threw |-> ~output.success]
  /\ UNCHANGED <<facadeVars, fs, calls, now>>

SetVoiceCheckedAnyway(p, voice, isValid) ==
  /\ options' = [options EXCEPT !.voice = Some(voice)]
  /\ ret' = [ret EXCEPT ![p] =
               IF isValid THEN [kind |-> "instance"] ELSE VoiceNotFoundError(voice)]

\* setVoiceWithValidation once validateVoice has answered
SetVoiceChecked(p, voice, isValid) ==
  IF isValid
    THEN /\ options' = [options EXCEPT !.voice = Some(voice)]
         /\ ret' = [ret EXCEPT ![p] = [kind |-> "instance"]]
    ELSE /\ options' = options
         /\ ret' = [ret EXCEPT ![p] = VoiceNotFoundError(voice)]

\* setVoiceWithValidation(voice) up to its await
SetVoiceWithValidationStart(p, voice) ==
  /\ inst
  /\ gv[p].pc = "idle"
  /\ hist' = [hist EXCEPT !.cleared = FALSE]
  /\ IF CacheFresh(now)
       THEN /\ SetVoiceChecked(p, voice, VoiceExists(Val(voicesCache), voice))
            /\ UNCHANGED <<gv, calls>>
       ELSE /\ Len(calls) < MaxFetches
            /\ calls' = Append(calls, VoicesCommand)
            /\ gv' = [gv EXCEPT ![p] =
                        [pc |-> "setVoiceWithValidation", now |-> now, voice |-> voice]]
            /\ ret' = [ret EXCEPT ![p] = NoReturn]
            /\ options' = options
  /\ last' = [op |-> "setVoiceWithValidation", arg |-> [p |-> p, voice |-> voice],
              threw |-> ret'[p].kind = "error"]
  /\ UNCHANGED <<inst, desc, voicesCache, voicesCacheTime, now, fs>>

\* setVoiceWithValidation after its await
SetVoiceWithValidationResume(p, output) ==
  /\ gv[p].pc = "setVoiceWithValidation"
  /\ FetchComplete(p, output)
  /\ IF ~output.success
       THEN /\ ret' = [ret EXCEPT ![p] = VoicesFetchError(output.errorText)]
            /\ options' = options
       ELSE SetVoiceChecked(p, gv[p].voice,
              VoiceExists(ParseLines(output.lines), gv[p].voice))
  /\ gv' = [gv EXCEPT ![p] = NoCall]
  /\ last' = [op |-> "setVoiceWithValidationResume",
              arg |-> [p |-> p, voice |-> gv[p].voice, output |-> output],
              threw |-> ret'[p].kind = "error"]
  /\ UNCHANGED <<inst, desc, calls, now, fs>>

----------------------------------------------------------------------------
(* The static single-shot say *)

S_commaSpace == <<",", " ">>

S_invalidOptions ==
  <<"I", "n", "v", "a", "l", "i", "d", " ", "o", "p", "t", "i", "o", "n",
    "s", ":", " ", "[", "o", "b", "j", "e", "c", "t", " ", "O", "b", "j",
    "e", "c", "t", "]", ".", " ">>

S_invalidRate ==
  <<"I", "n", "v", "a", "l", "i", "d", " ", "r", "a", "t", "e", ":", " ">>

S_rateReason ==
  <<".", " ", "R", "a", "t", "e", " ", "m", "u", "s", "t", " ", "b", "e",
    " ", "g", "r", "e", "a", "t", "e", "r", " ", "t", "h", "a", "n", " ",
    "o", "r", " ", "e", "q", "u", "a", "l", " ", "t", "o", " ", "1", ".">>

\* the constructor's new InvalidOptionError("rate", rate, "Rate must be ... 1.")
InvalidRateError(rate) ==
  [kind |-> "error", voices |-> <<>>,
   error |-> S_invalidRate \o ToString(rate) \o S_rateReason,
   code |-> "INVALID_OPTION"]

\* new InvalidOptionError("options", options, validation.errors.join(", "))
InvalidOptionsError(errors) ==
  [kind |-> "error", voices |-> <<>>,
   error |-> S_invalidOptions \o Join(errors, S_commaSpace),
   code |-> "INVALID_OPTION"]

StaticSayIgnoresValidation(validation) == TRUE

\* the static say goes on to execute when `!validation.isValid` is false
StaticSayProceeds(validation) == validation.isValid

\* the static say once validateOptions has answered for its instance, whose
\* options are o: it rejects, or builds the descriptor and calls its exec handle
StaticSayValidated(p, o, text, validation) ==
  IF StaticSayProceeds(validation)
    THEN /\ Len(calls) < MaxFetches
         /\ calls' = Append(calls, Descriptor(o, <<text>>).cmd)
         /\ gv' = [gv EXCEPT ![p] =
                     [pc |-> "staticSayExec", now |-> now, options |-> o, text |-> text]]
         /\ ret' = [ret EXCEPT ![p] = NoReturn]
    ELSE /\ ret' = [ret EXCEPT ![p] = InvalidOptionsError(validation.errors)]
         /\ gv' = [gv EXCEPT ![p] = NoCall]
         /\ UNCHANGED calls

\* MacOsSay.say(text, o) up to its first await: the constructor, then
\* validateOptions, which awaits the catalog only for a truthy voice that the
\* cache cannot answer
StaticSayStart(p, text, o) ==
  /\ gv[p].pc = "idle"
  /\ LET c == Construct(o)
     IN  IF c.threw
           THEN /\ ret' = [ret EXCEPT ![p] = InvalidRateError(Val(o.rate))]
                /\ UNCHANGED <<gv, calls, hist>>
           ELSE IF ~TruthyStr(c.options.voice)
             THEN /\ StaticSayValidated(p, c.options, text,
                       ValidationResult(c.options, TRUE))
                  /\ UNCHANGED hist
             ELSE /\ hist' = [hist EXCEPT !.cleared = FALSE]
                  /\ IF CacheFresh(now)
                       THEN StaticSayValidated(p, c.options, text,
                              ValidationResult(c.options,
                                VoiceExists(Val(voicesCache), Val(c.options.voice))))
                       ELSE /\ Len(calls) < MaxFetches
                            /\ calls' = Append(calls, VoicesCommand)
                            /\ gv' = [gv EXCEPT ![p] =
                                        [pc |-> "staticSayFetch", now |-> now,
                                         options |-> c.options, text |-> text]]
                            /\ ret' = [ret EXCEPT ![p] = NoReturn]
  /\ last' = [op |-> "staticSay", arg |-> [p |-> p, text |-> text, options |-> o],
              threw |-> ret'[p].kind = "error"]
  /\ UNCHANGED <<facadeVars, fs, voicesCache, voicesCacheTime, now>>

\* the static say after the catalog arrived for its validateOptions
StaticSayFetched(p, output) ==
  /\ gv[p].pc = "staticSayFetch"
  /\ FetchComplete(p, output)
  /\ IF ~output.success
       THEN /\ ret' = [ret EXCEPT ![p] = VoicesFetchError(output.errorText)]
            /\ gv' = [gv EXCEPT ![p] = NoCall]
            /\ UNCHANGED calls
       ELSE StaticSayValidated(p, gv[p].options, gv[p].text,
              ValidationResult(gv[p].options,
                VoiceExists(ParseLines(output.lines), Val(gv[p].options.voice))))
  /\ last' = [op |-> "staticSayFetched",
              arg |-> [p |-> p, text |-> gv[p].text, options |-> gv[p].options,
                       output |-> output],
              threw |-> ret'[p].kind = "error"]
  /\ UNCHANGED <<facadeVars, fs, now>>

\* the static say resolves with the output of its speech command
StaticSayDone(p, output) ==
  /\ gv[p].pc = "staticSayExec"
  /\ ret' = [ret EXCEPT ![p] = [kind |-> "output", output |-> output]]
  /\ gv' = [gv EXCEPT ![p] = NoCall]
  /\ last' = [op |-> "staticSayDone",
              arg |-> [p |-> p, text |-> gv[p].text, options |-> gv[p].options,
                       output |-> output],
              threw |-> FALSE]
  /\ UNCHANGED <<facadeVars, fs, calls, voicesCache, voicesCacheTime, now, hist>>

----------------------------------------------------------------------------
(* The batch *)

\* the default of sayBatch's delayMs parameter
DefaultDelayMs == 1000

\* Array.prototype.indexOf for an element of the array, counted from 1
IndexOf(texts, text) ==
  CHOOSE i \in 1..Len(texts) :
    /\ texts[i] = text
    /\ \A j \in 1..(i - 1) : texts[j] # text

BatchNeverDelays(texts, i, delayMs) == FALSE

\* `delayMs > 0 && texts.indexOf(text) < texts.length - 1` for the i-th text
BatchDelayDue(texts, i, delayMs) ==
  delayMs > 0 /\ IndexOf(texts, texts[i]) - 1 < Len(texts) - 1

\* the loop of sayBatch at the head of an iteration, b.i items being done:
\* it invokes the speech command of the next text, or returns the outputs
BatchNext(p, b) ==
  IF b.i < Len(b.texts)
    THEN /\ calls' = Append(calls, Descriptor(b.options, <<b.texts[b.i + 1]>>).cmd)
         /\ gv' = [gv EXCEPT ![p] =
                     [b EXCEPT !.pc = "batchExec", !.i = b.i + 1,
                               !.inflight = Len(calls) + 1]]
         /\ ret' = [ret EXCEPT ![p] = NoReturn]
    ELSE /\ ret' = [ret EXCEPT ![p] = [kind |-> "outputs", outputs |-> b.outputs]]
         /\ gv' = [gv EXCEPT ![p] = NoCall]
         /\ UNCHANGED calls

\* MacOsSay.sayBatch(texts, o, delayMs) up to its first await
SayBatchStart(p, texts, o, delayMs) ==
  /\ gv[p].pc = "idle"
  /\ Len(calls) + Len(texts) <= MaxBatchCalls
  /\ IF Construct(o).threw
       THEN /\ ret' = [ret EXCEPT ![p] = InvalidRateError(Val(o.rate))]
            /\ UNCHANGED <<gv, calls>>
       ELSE BatchNext(p, [pc |-> "batchExec", now |-> now, texts |-> texts,
                          options |-> Construct(o).options, delayMs |-> delayMs,
                          i |-> 0, outputs |-> <<>>, inflight |-> 0, delays |-> 0])
  /\ last' = [op |-> "sayBatch",
              arg |-> [p |-> p, texts |-> texts, options |-> o, delayMs |-> delayMs],
              threw |-> Construct(o).threw]
  /\ UNCHANGED <<facadeVars, fs, voicesCache, voicesCacheTime, now, hist>>

\* the output of the speech command in flight arrives: it is pushed, and the
\* loop sets its timer or goes on to the next iteration
SayBatchOutput(p, output) ==
  /\ gv[p].pc = "batchExec"
  /\ LET b == [gv[p] EXCEPT
                 !.outputs = Append(@, [success |-> output.success, code |-> output.code,
                                        call |-> gv[p].inflight]),
                 !.now = now]
     IN  IF BatchDelayDue(b.texts, b.i, b.delayMs)
           THEN /\ gv' = [gv EXCEPT ![p] =
                            [b EXCEPT !.pc = "batchDelay", !.delays = @ + 1]]
                /\ UNCHANGED <<calls, ret>>
           ELSE BatchNext(p, b)
  /\ last' = [op |-> "sayBatchOutput", arg |-> [p |-> p, output |-> output],
              threw |-> FALSE]
  /\ UNCHANGED <<facadeVars, fs, voicesCache, voicesCacheTime, now, hist>>

\* the timer of the inter-item delay fires, delayMs after it was set
SayBatchTimer(p) ==
  /\ gv[p].pc = "batchDelay"
  /\ now >= gv[p].now + gv[p].delayMs
  /\ BatchNext(p, gv[p])
  /\ last' = [op |-> "sayBatchTimer", arg |-> [p |-> p], threw |-> FALSE]
  /\ UNCHANGED <<facadeVars, fs, voicesCache, voicesCacheTime, now, hist>>

----------------------------------------------------------------------------
(* The default voice *)

S_defaults == <<"d", "e", "f", "a", "u", "l", "t", "s">>
S_read == <<"r", "e", "a", "d">>
S_voicePrefs ==
  <<"c", "o", "m", ".", "a", "p", "p", "l", "e", ".", "s", "p", "e", "e", "c",
    "h", ".", "v", "o", "i", "c", "e", ".", "p", "r", "e", "f", "s">>
S_selectedVoiceName ==
  <<"S", "e", "l", "e", "c", "t", "e", "d", "V", "o", "i", "c", "e", "N", "a",
    "m", "e">>
S_Alex == <<"A", "l", "e", "x">>

\* new Command("defaults", ["read", "com.apple.speech.voice.prefs", "SelectedVoiceName"])
DefaultsCommand ==
  [prog |-> S_defaults, args |-> <<S_read, S_voicePrefs, S_selectedVoiceName>>]

\* `name || "Alex"` on an optional string
NameOrAlex(o) == IF TruthyStr(o) THEN Val(o) ELSE S_Alex

\* output.lines()[0]?.trim()
FirstLineTrimmed(lines) == IF Len(lines) = 0 THEN Null ELSE Some(Trim(lines[1]))

\* voices[0]?.name
FirstVoiceName(voices) == IF Len(voices) = 0 THEN Null ELSE Some(voices[1].name)

VoiceName(name) == [kind |-> "voiceName", name |-> name]

\* getDefaultVoice up to its await of the preference read
GetDefaultVoiceStart(p) ==
  /\ gv[p].pc = "idle"
  /\ Len(calls) < MaxFetches
  /\ calls' = Append(calls, DefaultsCommand)
  /\ gv' = [gv EXCEPT ![p] = [pc |-> "defaultsRead", now |-> now]]
  /\ ret' = [ret EXCEPT ![p] = NoReturn]
  /\ last' = [op |-> "getDefaultVoice", arg |-> p, threw |-> FALSE]
  /\ UNCHANGED <<facadeVars, fs, voicesCache, voicesCacheTime, now, hist>>

\* the preference read's output arrives: its first line on success; otherwise
\* getVoices is called, which answers from a fresh cache or invokes the executor
GetDefaultVoicePref(p, output) ==
  /\ gv[p].pc = "defaultsRead"
  /\ IF output.success
       THEN /\ ret' = [ret EXCEPT ![p] =
                         VoiceName(NameOrAlex(FirstLineTrimmed(output.lines)))]
            /\ gv' = [gv EXCEPT ![p] = NoCall]
            /\ UNCHANGED <<calls, hist>>
       ELSE /\ hist' = [hist EXCEPT !.cleared = FALSE]
            /\ IF CacheFresh(now)
                 THEN /\ ret' = [ret EXCEPT ![p] =
                                   VoiceName(NameOrAlex(FirstVoiceName(Val(voicesCache))))]
                      /\ gv' = [gv EXCEPT ![p] = NoCall]
                      /\ UNCHANGED calls
                 ELSE /\ Len(calls) < MaxFetches
                      /\ calls' = Append(calls, VoicesCommand)
                      /\ gv' = [gv EXCEPT ![p] = [pc |-> "defaultVoiceFetch", now |-> now]]
                      /\ ret' = [ret EXCEPT ![p] = NoReturn]
  /\ last' = [op |-> "getDefaultVoicePref", arg |-> [p |-> p, output |-> output],
              threw |-> FALSE]
  /\ UNCHANGED <<facadeVars, fs, voicesCache, voicesCacheTime, now>>

\* the catalog arrives for the fallback: getVoices' throw is not caught
GetDefaultVoiceFetched(p, output) ==
  /\ gv[p].pc = "defaultVoiceFetch"
  /\ FetchComplete(p, output)
  /\ ret' = [ret EXCEPT ![p] =
               IF ~output.success
                 THEN VoicesFetchError(output.errorText)
                 ELSE VoiceName(NameOrAlex(FirstVoiceName(ParseLines(output.lines))))]
  /\ gv' = [gv EXCEPT ![p] = NoCall]
  /\ last' = [op |-> "getDefaultVoiceFetched", arg |-> [p |-> p, output |-> output],
              threw |-> ~output.success]
  /\ UNCHANGED <<facadeVars, fs, calls, now>>

----------------------------------------------------------------------------
(* The configuration file: JSON text *)

\* A JSON value is a tagged record: [t |-> "string", s |-> characters],
\* [t |-> "number", n |-> integer], [t |-> "boolean", b |-> BOOLEAN],
\* [t |-> "null"], or [t |-> "object", members |-> sequence of [key, value]]
\* in property order.  Numbers are integers and there are no arrays: a config
\* holds neither fractions nor arrays.

S_true == <<"t", "r", "u", "e">>
S_false == <<"f", "a", "l", "s", "e">>

JsonString(s) == [t |-> "string", s |-> s]
JsonNumber(n) == [t |-> "number", n |-> n]
JsonBoolean(b) == [t |-> "boolean", b |-> b]
JsonNull == [t |-> "null"]
JsonObject(members) == [t |-> "object", members |-> members]

\* the characters JSON.stringify writes for one character of a string
JsonEscapeChar(c) ==
  IF c = "\"" THEN <<"\\", "\"">>
  ELSE IF c = "\\" THEN <<"\\", "\\">>
  ELSE IF c = "\t" THEN <<"\\", "t">>
  ELSE IF c = "\n" THEN <<"\\", "n">>
  ELSE <<c>>

RECURSIVE JsonEscape(_)
JsonEscape(s) ==
  IF Len(s) = 0 THEN <<>> ELSE JsonEscapeChar(Head(s)) \o JsonEscape(Tail(s))

JsonQuoteUnescaped(s) == <<"\"">> \o s \o <<"\"">>

\* JSON.stringify of a string
JsonQuote(s) == <<"\"">> \o JsonEscape(s) \o <<"\"">>

Indent(n) == [i \in 1..n |-> " "]

RECURSIVE JsonStringify(_, _, _)
RECURSIVE JsonStringifyMembers(_, _, _)
\* JSON.stringify(v, null, gap) of a value that sits at indentation ind
JsonStringify(v, gap, ind) ==
  IF v.t = "string" THEN JsonQuote(v.s)
  ELSE IF v.t = "number" THEN ToString(v.n)
  ELSE IF v.t = "boolean" THEN (IF v.b THEN S_true ELSE S_false)
  ELSE IF v.t = "null" THEN S_null
  ELSE IF Len(v.members) = 0 THEN <<"{", "}">>
  ELSE <<"{", "\n">> \o JsonStringifyMembers(v.members, gap, ind + gap)
         \o <<"\n">> \o Indent(ind) \o <<"}">>

JsonStringifyMembers(members, gap, ind) ==
  Indent(ind) \o JsonQuote(members[1].key) \o <<":", " ">>
    \o JsonStringify(members[1].value, gap, ind)
    \o (IF Len(members) = 1 THEN <<>>
        ELSE <<",", "\n">> \o JsonStringifyMembers(Tail(members), gap, ind))

JsonWhiteSpace == {" ", "\t", "\n", "\r"}

IsDigit(c) == \E d \in 1..Len(Digits) : Digits[d] = c
DigitValue(c) == (CHOOSE d \in 1..Len(Digits) : Digits[d] = c) - 1

\* a parse step's failure; a success is [ok, value, next], next the index
\* after the value
JsonFail == [ok |-> FALSE]
JsonOk(value, next) == [ok |-> TRUE, value |-> value, next |-> next]

RECURSIVE SkipWhiteSpace(_, _)
SkipWhiteSpace(s, i) ==
  IF i <= Len(s) /\ s[i] \in JsonWhiteSpace THEN SkipWhiteSpace(s, i + 1) ELSE i

RECURSIVE JsonStringBody(_, _, _)
\* the characters of a string literal from i, after its opening quote
JsonStringBody(s, i, chars) ==
  IF i > Len(s) THEN JsonFail
  ELSE IF s[i] = "\"" THEN JsonOk(chars, i + 1)
  ELSE IF s[i] = "\\"
    THEN IF i + 1 > Len(s) THEN JsonFail
         ELSE IF s[i + 1] \in {"\"", "\\", "/"}
           THEN JsonStringBody(s, i + 2, Append(chars, s[i + 1]))
         ELSE IF s[i + 1] = "t" THEN JsonStringBody(s, i + 2, Append(chars, "\t"))
         ELSE IF s[i + 1] = "n" THEN JsonStringBody(s, i + 2, Append(chars, "\n"))
         ELSE JsonFail
  ELSE IF s[i] \in {"\t", "\n", "\r"} THEN JsonFail
  ELSE JsonStringBody(s, i + 1, Append(chars, s[i]))

RECURSIVE JsonDigits(_, _, _)
JsonDigits(s, i, n) ==
  IF i <= Len(s) /\ IsDigit(s[i])
    THEN JsonDigits(s, i + 1, n * 10 + DigitValue(s[i]))
    ELSE JsonOk(n, i)

\* an integer literal at i
JsonNumberAt(s, i) ==
  LET j == IF s[i] = "-" THEN i + 1 ELSE i
  IN  IF j > Len(s) \/ ~IsDigit(s[j]) THEN JsonFail
      ELSE LET d == JsonDigits(s, j, 0)
           IN  JsonOk(JsonNumber(IF j > i THEN 0 - d.value ELSE d.value), d.next)

LiteralAt(s, i, word) ==
  i + Len(word) - 1 <= Len(s) /\ SubSeq(s, i, i + Len(word) - 1) = word

RECURSIVE JsonValueAt(_, _)
RECURSIVE JsonMembersAt(_, _, _)
\* the value that starts at or after i
JsonValueAt(s, from) ==
  LET i == SkipWhiteSpace(s, from)
  IN  IF i > Len(s) THEN JsonFail
      ELSE IF s[i] = "\""
        THEN LET r == JsonStringBody(s, i + 1, <<>>)
             IN  IF r.ok THEN JsonOk(JsonString(r.value), r.next) ELSE JsonFail
      ELSE IF s[i] = "{"
        THEN LET j == SkipWhiteSpace(s, i + 1)
             IN  IF j <= Len(s) /\ s[j] = "}"
                   THEN JsonOk(JsonObject(<<>>), j + 1)
                   ELSE JsonMembersAt(s, j, <<>>)
      ELSE IF s[i] = "-" \/ IsDigit(s[i]) THEN JsonNumberAt(s, i)
      ELSE IF LiteralAt(s, i, S_true) THEN JsonOk(JsonBoolean(TRUE), i + Len(S_true))
      ELSE IF LiteralAt(s, i, S_false) THEN JsonOk(JsonBoolean(FALSE), i + Len(S_false))
      ELSE IF LiteralAt(s, i, S_null) THEN JsonOk(JsonNull, i + Len(S_null))
      ELSE JsonFail

\* the members of an object from the key at i on, after the members read so far
JsonMembersAt(s, i, members) ==
  IF i > Len(s) \/ s[i] # "\"" THEN JsonFail
  ELSE LET k == JsonStringBody(s, i + 1, <<>>)
       IN  IF ~k.ok THEN JsonFail
           ELSE LET c == SkipWhiteSpace(s, k.next)
                IN  IF c > Len(s) \/ s[c] # ":" THEN JsonFail
                    ELSE LET v == JsonValueAt(s, c + 1)
                         IN  IF ~v.ok THEN JsonFail
                             ELSE LET e == SkipWhiteSpace(s, v.next)
                                      read == Append(members,
                                                [key |-> k.value, value |-> v.value])
                                  IN  IF e > Len(s) THEN JsonFail
                                      ELSE IF s[e] = "}"
                                        THEN JsonOk(JsonObject(read), e + 1)
                                      ELSE IF s[e] = ","
                                        THEN JsonMembersAt(s, SkipWhiteSpace(s, e + 1), read)
                                      ELSE JsonFail

\* JSON.parse(s): a value and nothing but white space after it
JsonParse(s) ==
  LET r == JsonValueAt(s, 1)
  IN  IF r.ok /\ SkipWhiteSpace(s, r.next) > Len(s) THEN r ELSE JsonFail

\* property access on a parsed object: the last member of that key
HasMember(v, key) ==
  v.t = "object" /\ \E i \in 1..Len(v.members) : v.members[i].key = key

Member(v, key) ==
  LET i == CHOOSE i \in 1..Len(v.members) :
             /\ v.members[i].key = key
             /\ \A j \in (i + 1)..Len(v.members) : v.members[j].key # key
  IN  v.members[i].value

----------------------------------------------------------------------------
(* The configuration file: saveConfig and loadConfig *)

S_version == <<"v", "e", "r", "s", "i", "o", "n">>
S_config == <<"c", "o", "n", "f", "i", "g">>
S_lastUpdated == <<"l", "a", "s", "t", "U", "p", "d", "a", "t", "e", "d">>
S_versionNumber == <<"1", ".", "0", ".", "0">>
S_defaultVoice == <<"d", "e", "f", "a", "u", "l", "t", "V", "o", "i", "c", "e">>
S_defaultRate == <<"d", "e", "f", "a", "u", "l", "t", "R", "a", "t", "e">>
S_defaultQuality ==
  <<"d", "e", "f", "a", "u", "l", "t", "Q", "u", "a", "l", "i", "t", "y">>
S_defaultAudioDevice ==
  <<"d", "e", "f", "a", "u", "l", "t", "A", "u", "d", "i", "o", "D", "e", "v",
    "i", "c", "e">>
S_cacheVoices == <<"c", "a", "c", "h", "e", "V", "o", "i", "c", "e", "s">>
S_cacheDuration ==
  <<"c", "a", "c", "h", "e", "D", "u", "r", "a", "t", "i", "o", "n">>
S_autoValidate == <<"a", "u", "t", "o", "V", "a", "l", "i", "d", "a", "t", "e">>
S_epochDay == <<"1", "9", "7", "0", "-", "0", "1", "-", "0", "1", "T">>

JsonGap == 2
MsPerDay == 86400000

\* n in decimal, padded with zeros to width characters
Pad(n, width) ==
  LET d == ToString(n)
  IN  [i \in 1..(width - Len(d)) |-> "0"] \o d

\* new Date(t).toISOString() for an instant t of the epoch's first day
ToISOString(t) ==
  S_epochDay \o Pad(t \div 3600000, 2) \o <<":">> \o Pad((t \div 60000) % 60, 2)
    \o <<":">> \o Pad((t \div 1000) % 60, 2) \o <<".">> \o Pad(t % 1000, 3)
    \o <<"Z">>

\* a config's property of key, when the field is defined
StringProperty(key, o) ==
  IF o = Null THEN <<>> ELSE <<[key |-> key, value |-> JsonString(Val(o))]>>
NumberProperty(key, o) ==
  IF o = Null THEN <<>> ELSE <<[key |-> key, value |-> JsonNumber(Val(o))]>>
BooleanProperty(key, o) ==
  IF o = Null THEN <<>> ELSE <<[key |-> key, value |-> JsonBoolean(Val(o))]>>

\* a MacOsSayConfig as the object JSON.stringify sees: undefined fields are
\* left out
ConfigObject(config) ==
  JsonObject(
    StringProperty(S_defaultVoice, config.defaultVoice)
      \o NumberProperty(S_defaultRate, config.defaultRate)
      \o NumberProperty(S_defaultQuality, config.defaultQuality)
      \o StringProperty(S_defaultAudioDevice, config.defaultAudioDevice)
      \o BooleanProperty(S_cacheVoices, config.cacheVoices)
      \o NumberProperty(S_cacheDuration, config.cacheDuration)
      \o BooleanProperty(S_autoValidate, config.autoValidate))

\* the ConfigFile saveConfig builds at instant t
ConfigFile(config, t) ==
  JsonObject(<<[key |-> S_version, value |-> JsonString(S_versionNumber)],
               [key |-> S_config, value |-> ConfigObject(config)],
               [key |-> S_lastUpdated, value |-> JsonString(ToISOString(t))]>>)

NoFile == [content |-> Null, saved |-> Null]

S_failedLoad ==
  <<"F", "a", "i", "l", "e", "d", " ", "t", "o", " ", "l", "o", "a", "d", " ",
    "c", "o", "n", "f", "i", "g", "u", "r", "a", "t", "i", "o", "n", ":", " ">>

\* new MacOsSayError(`Failed to load configuration: ${errorMessage}`,
\* "CONFIG_LOAD_ERROR"); the runtime's message is left out
ConfigLoadError ==
  [kind |-> "error", voices |-> <<>>, error |-> S_failedLoad,
   code |-> "CONFIG_LOAD_ERROR"]

\* MacOsSay.saveConfig(config, filePath)
SaveConfig(config, filePath) ==
  /\ now < MsPerDay
  /\ fs' = [fs EXCEPT ![filePath] =
              [content |-> Some(JsonStringify(ConfigFile(config, now), JsonGap, 0)),
               saved |-> Some(config)]]
  /\ ret' = [ret EXCEPT ![1] = [kind |-> "saved"]]
  /\ last' = [op |-> "saveConfig", arg |-> [config |-> config, path |-> filePath],
              threw |-> FALSE]
  /\ UNCHANGED <<facadeVars, calls, voicesCache, voicesCacheTime, now, gv, hist>>

\* what loadConfig gives for a file: a missing file, text that is not JSON and
\* the property access on null all end in the catch block; a value without a
\* config property gives undefined
LoadConfigResult(file) ==
  IF file.content = Null THEN ConfigLoadError
  ELSE LET r == JsonParse(Val(file.content))
       IN  IF ~r.ok THEN ConfigLoadError
           ELSE IF r.value.t = "null" THEN ConfigLoadError
           ELSE IF ~HasMember(r.value, S_config) THEN [kind |-> "undefined"]
           ELSE [kind |-> "config", config |-> Member(r.value, S_config)]

\* MacOsSay.loadConfig(filePath)
LoadConfig(filePath) ==
  /\ ret' = [ret EXCEPT ![1] = LoadConfigResult(fs[filePath])]
  /\ last' = [op |-> "loadConfig", arg |-> [path |-> filePath],
              threw |-> LoadConfigResult(fs[filePath]).kind = "error"]
  /\ UNCHANGED <<facadeVars, calls, voicesCache, voicesCacheTime, now, gv, hist, fs>>

\* something else writes the file
WriteFile(filePath, content) ==
  /\ fs' = [fs EXCEPT ![filePath] = [content |-> Some(content), saved |-> Null]]
  /\ last' = [op |-> "writeFile", arg |-> [path |-> filePath, content |-> content],
              threw |-> FALSE]
  /\ UNCHANGED <<facadeVars, calls, voicesCache, voicesCacheTime, now, gv, ret, hist>>

----------------------------------------------------------------------------
(* The duration estimate *)

DefaultRate == 150

RECURSIVE SplitWhiteSpaceFrom(_, _)
\* s.split(/\s+/): the pieces between all the runs of white space; piece is
\* the piece that is open at the head of s
SplitWhiteSpaceFrom(s, piece) ==
  IF Len(s) = 0 THEN <<piece>>
  ELSE IF Head(s) \in WhiteSpace
    THEN <<piece>> \o SplitWhiteSpaceFrom(TrimStart(s), <<>>)
    ELSE SplitWhiteSpaceFrom(Tail(s), piece \o <<Head(s)>>)

SplitWhiteSpace(s) == SplitWhiteSpaceFrom(s, <<>>)

\* Math.round of the quotient num / den, den > 0: the nearest integer, a half
\* going up
Round(num, den) == (2 * num + den) \div (2 * den)

\* text.trim().split(/\s+/).length words at rate words a minute, in ms
EstimateMs(text, rate) ==
  LET words == Len(SplitWhiteSpace(Trim(text)))
  IN  Round(words * 60 * 1000, rate)

\* MacOsSay.estimateDuration(text, rate), rate defaulting to 150
EstimateDuration(text, rate) ==
  /\ ret' = [ret EXCEPT ![1] =
               [kind |-> "duration",
                ms |-> EstimateMs(text, IF rate = Null THEN DefaultRate ELSE Val(rate))]]
  /\ last' = [op |-> "estimateDuration", arg |-> [text |-> text, rate |-> rate],
              threw |-> FALSE]
  /\ UNCHANGED <<facadeVars, fs, calls, voicesCache, voicesCacheTime, now, gv, hist>>

----------------------------------------------------------------------------
(* Specifications *)

Init ==
  /\ inst = FALSE
  /\ options = DefaultOptions
  /\ desc = Null
  /\ calls = <<>>
  /\ voicesCache = Null
  /\ voicesCacheTime = 0
  /\ now = 1
  /\ gv = [p \in Procs |-> NoCall]
  /\ ret = [p \in Procs |-> NoReturn]
  /\ hist = [fetched |-> Null, cleared |-> FALSE]
  /\ fs = [path \in Paths |-> NoFile]
  /\ last = [op |-> "init", arg |-> Null, threw |-> FALSE]

OptBool == {Null, Some(TRUE), Some(FALSE)}

ConfigInputs ==
  [defaultVoice : OptVoice, defaultRate : OptRate, defaultQuality : OptQuality,
   defaultAudioDevice : OptAudioDevice, cacheVoices : OptBool]

\* The facade as an option translator: one instance, any setter sequence; the
\* caller holds at most one descriptor and drops it before the next setter call.
Next ==
  \/ \E o \in CtorInputs : New(o)
  \/ \E c \in ConfigInputs : FromConfig(c)
  \/ desc = Null /\ \E v \in OptVoice : SetVoice(v)
  \/ desc = Null /\ \E r \in OptRate : SetRate(r)
  \/ desc = Null /\ \E q \in OptQuality : SetQuality(q)
  \/ desc = Null /\ \E f \in OptOutputFile \cup {Some(S_empty)} : SetOutputFile(f)
  \/ desc = Null /\ \E n \in OptNetwork \cup {Some(S_empty)} : SetNetwork(n)
  \/ desc = Null /\ \E a \in OptAudioDevice \cup {Some(S_empty)} : SetAudioDeviceID(a)
  \/ desc = Null /\ \E f \in OptFileFormat \cup {Some(S_empty)} : SetFileFormat(f)
  \/ \E t \in Texts : Say(t)
  \/ \E f \in Files : SayFile(f)
  \/ Discard

Spec == Init /\ [][Next]_vars

ExecCtorInputs ==
  {o \in CtorInputs :
     /\ o.voice \in {Null, Some(S_Al)}
     /\ o.rate \in {Null, Some(12)}
     /\ o.quality = Null /\ o.outputFile = Null /\ o.network = Null
     /\ o.audioDeviceID = Null /\ o.fileFormat = Null}

\* The execution boundary: the descriptor stays with the caller across setter
\* calls and its exec handle may be called at any time, any number of times.
NextExec ==
  \/ \E o \in ExecCtorInputs : New(o)
  \/ \E v \in {Null, Some(S_Al)} : SetVoice(v)
  \/ \E r \in {Null, Some(12)} : SetRate(r)
  \/ Say(S_hi)
  \/ \E f \in Files : SayFile(f)
  \/ Exec
  \/ Discard

SpecExec == Init /\ [][NextExec]_vars

\* fragments of catalog lines: a head, an optional locale token, a tail
S_locale1 == <<"f", "r", "_", "C", "A">>
S_locale2 == <<"e", "n", "_", "U", "S">>
LineHeads == {<<>>, <<"A", "l", " ">>}
LineMids == {<<>>, S_locale1, <<"f", "r", "_", "c", "a">>}
LineTails ==
  {<<>>, <<" ", "\t", "#", " ", "h", "i", " ">>, <<"#", " ", "#", " ", "x">>,
   <<" ">> \o S_locale2}

CatalogLines == {h \o m \o t : h \in LineHeads, m \in LineMids, t \in LineTails}

LineSeqs == UNION {[1..n -> CatalogLines] : n \in 0..MaxLines}

S_err == <<"E", "r", "r">>

S_line1 == <<"A", "l", " ">> \o S_locale1

ParseOutputs ==
  {[success |-> TRUE, lines |-> ls, errorText |-> <<>>] : ls \in LineSeqs}
    \cup {[success |-> FALSE, lines |-> ls, errorText |-> S_err] :
            ls \in {<<>>, <<S_line1>>}}

\* The catalog fetches of one caller, one after the other, over every catalog
\* output within the bounds; the caller clears the cache between its calls.
NextParse ==
  \/ Len(calls) < MaxCalls /\ GetVoicesStart(1)
  \/ \E out \in ParseOutputs : GetVoicesResume(1, out)
  \/ gv[1].pc = "idle" /\ ClearVoicesCache

SpecParse == Init /\ [][NextParse]_vars

\* the clock moves forward to one of the instants around the cache's expiry
Times == {CACHE_DURATION, CACHE_DURATION + 1}

Tick(t) ==
  /\ t > now
  /\ now' = t
  /\ last' = [op |-> "tick", arg |-> t, threw |-> FALSE]
  /\ UNCHANGED <<facadeVars, fs, calls, voicesCache, voicesCacheTime, gv, ret, hist>>

S_line2 == <<"B", "o", " ">> \o S_locale2

CacheOutputs ==
  {[success |-> TRUE, lines |-> <<S_line1>>, errorText |-> <<>>],
   [success |-> TRUE, lines |-> <<S_line2, S_line1>>, errorText |-> <<>>],
   [success |-> TRUE, lines |-> <<>>, errorText |-> <<>>],
   [success |-> FALSE, lines |-> <<>>, errorText |-> S_err]}

\* The cache under concurrent callers and a moving clock.
NextCache ==
  \/ \E p \in Procs : GetVoicesStart(p)
  \/ \E p \in Procs, out \in CacheOutputs : GetVoicesResume(p, out)
  \/ ClearVoicesCache
  \/ \E t \in Times : Tick(t)

SpecCache == Init /\ [][NextCache]_vars

S_Bo == <<"B", "o">>

ValidateCtorInputs ==
  {o \in [voice : OptVoice \cup {Some(S_Bo)}, rate : {Null, Some(0), Some(12)},
          quality : {Null, Some(128)}, outputFile : {Null}, network : {Null},
          audioDeviceID : {Null}, fileFormat : {Null}] : TRUE}

\* One instance whose options are validated against the catalog, with setter
\* calls and cache invalidations between and during the validations.
NextValidate ==
  \/ \E o \in ValidateCtorInputs : New(o)
  \/ \E v \in {Null, Some(S_Bo)} : SetVoice(v)
  \/ ValidateOptionsStart(1)
  \/ \E out \in CacheOutputs : ValidateOptionsResume(1, out)
  \/ \E v \in VoiceNames \cup {S_Bo} : SetVoiceWithValidationStart(1, v)
  \/ \E out \in CacheOutputs : SetVoiceWithValidationResume(1, out)
  \/ GetVoicesStart(1)
  \/ \E out \in CacheOutputs : GetVoicesResume(1, out)
  \/ ClearVoicesCache

SpecValidate == Init /\ [][NextValidate]_vars

StaticSayInputs ==
  {o \in CtorInputs :
     /\ o.voice \in {Null, Some(S_empty), Some(S_Al)}
     /\ o.rate \in {Null, Some(-1), Some(0)}
     /\ o.quality = Null /\ o.outputFile = Null /\ o.network = Null
     /\ o.audioDeviceID = Null /\ o.fileFormat = Null}

\* the outputs of a speech command
SpeechOutputs == {[success |-> TRUE, code |-> 0], [success |-> FALSE, code |-> 1]}

\* Single-shot says of two callers over a shared catalog cache.
NextStatic ==
  \/ \E p \in Procs, o \in StaticSayInputs : StaticSayStart(p, S_hi, o)
  \/ \E p \in Procs, out \in CacheOutputs : StaticSayFetched(p, out)
  \/ \E p \in Procs, out \in SpeechOutputs : StaticSayDone(p, out)
  \/ ClearVoicesCache

SpecStatic == Init /\ [][NextStatic]_vars

S_yo == <<"y", "o">>

BatchTexts == UNION {[1..n -> {S_hi, S_yo}] : n \in 0..MaxTexts}

BatchInputs ==
  {o \in CtorInputs :
     /\ o.voice \in {Null, Some(S_Al)}
     /\ o.rate \in {Null, Some(-1)}
     /\ (o.rate # Null => o.voice = Null)
     /\ o.quality = Null /\ o.outputFile = Null /\ o.network = Null
     /\ o.audioDeviceID = Null /\ o.fileFormat = Null}

\* the instants at which the timers of a batch started at the beginning fall due
BatchTimes == {1 + k * DefaultDelayMs : k \in 1..MaxTexts}

\* Batches of one caller, one after the other, under a moving clock.
NextBatch ==
  \/ \E texts \in BatchTexts, o \in BatchInputs, d \in {0, DefaultDelayMs} :
       SayBatchStart(1, texts, o, d)
  \/ \E out \in SpeechOutputs : SayBatchOutput(1, out)
  \/ SayBatchTimer(1)
  \/ \E t \in BatchTimes : Tick(t)

SpecBatch == Init /\ [][NextBatch]_vars

S_prefLine == <<" ", "B", "o", " ">>

PrefOutputs ==
  {[success |-> TRUE, lines |-> <<S_prefLine>>, errorText |-> <<>>],
   [success |-> TRUE, lines |-> <<>>, errorText |-> <<>>],
   [success |-> TRUE, lines |-> <<<<" ">>>>, errorText |-> <<>>],
   [success |-> FALSE, lines |-> <<>>, errorText |-> S_err]}

\* Default-voice lookups of two callers over the shared catalog cache, with
\* plain catalog fetches, cache clears and a moving clock in between.
NextDefault ==
  \/ \E p \in Procs : GetDefaultVoiceStart(p)
  \/ \E p \in Procs, out \in PrefOutputs : GetDefaultVoicePref(p, out)
  \/ \E p \in Procs, out \in CacheOutputs : GetDefaultVoiceFetched(p, out)
  \/ GetVoicesStart(1)
  \/ \E out \in CacheOutputs : GetVoicesResume(1, out)
  \/ ClearVoicesCache
  \/ \E t \in Times : Tick(t)

SpecDefault == Init /\ [][NextDefault]_vars

S_tricky == <<"A", "\"", "\\", " ", "l">>

EmptyConfig ==
  [defaultVoice |-> Null, defaultRate |-> Null, defaultQuality |-> Null,
   defaultAudioDevice |-> Null, cacheVoices |-> Null, cacheDuration |-> Null,
   autoValidate |-> Null]

\* the configs that are saved: every field absent and present, a voice name
\* with a quote, a backslash and a blank, numbers below, at and above zero
ConfigFileInputs ==
  {EmptyConfig,
   [EmptyConfig EXCEPT !.defaultVoice = Some(S_tricky)],
   [EmptyConfig EXCEPT !.defaultRate = Some(-1), !.cacheVoices = Some(TRUE)],
   [EmptyConfig EXCEPT !.defaultQuality = Some(0), !.defaultVoice = Some(S_empty)],
   [EmptyConfig EXCEPT !.defaultAudioDevice = Some(<<"d">>),
                       !.autoValidate = Some(FALSE)],
   [defaultVoice |-> Some(S_tricky), defaultRate |-> Some(12),
    defaultQuality |-> Some(127), defaultAudioDevice |-> Some(<<"d">>),
    cacheVoices |-> Some(FALSE), cacheDuration |-> Some(CACHE_DURATION),
    autoValidate |-> Some(TRUE)]}

\* what another writer leaves in a file
ForeignContents == {<<"{">>, <<"{", "}">>, S_null}

\* Configs saved to and loaded from the files, other writers, a moving clock.
NextConfig ==
  \/ \E c \in ConfigFileInputs, path \in Paths : SaveConfig(c, path)
  \/ \E path \in Paths : LoadConfig(path)
  \/ \E path \in Paths, content \in ForeignContents : WriteFile(path, content)
  \/ Tick(CACHE_DURATION)

SpecConfig == Init /\ [][NextConfig]_vars

\* The estimate as a function of its inputs: texts of letters, blanks and tabs,
\* a few rates and the default rate.
EstimateChars == {"a", " ", "\t"}

EstimateTexts == UNION {[1..n -> EstimateChars] : n \in 0..MaxTextLen}

EstimateRates == {Null, Some(1), Some(7), Some(64)}

NextEstimate ==
  \E text \in EstimateTexts, rate \in EstimateRates : EstimateDuration(text, rate)

SpecEstimate == Init /\ [][NextEstimate]_vars

----------------------------------------------------------------------------
(* Properties of the option translator *)

BuildOps == {"say", "sayFile"}

\* the positional tokens of the build that has just happened
Suffix == IF last.op = "say" THEN <<last.arg>> ELSE <<F_f, last.arg>>

\* a descriptor has just been built from the current options
JustBuilt == last.op \in BuildOps /\ desc # Null

\* the tokens the options contributed to the descriptor just built
OptionPart == SubSeq(Val(desc).args, 1, Len(Val(desc).args) - Len(Suffix))

HasToken(toks, t) == \E i \in 1..Len(toks) : toks[i] = t

IsPrefix(p, s) == Len(p) <= Len(s) /\ SubSeq(s, 1, Len(p)) = p

HasTokenWithPrefix(toks, p) == \E i \in 1..Len(toks) : IsPrefix(p, toks[i])

\* the argument vector as C1 states it, where "set" means "not null"
C1_Expected(o) ==
  (IF o.voice # Null THEN <<F_v, S_quote \o Val(o.voice) \o S_quote>> ELSE <<>>)
  \o (IF o.rate # Null THEN <<F_r, ToString(Val(o.rate))>> ELSE <<>>)
  \o (IF o.quality # Null THEN <<F_quality \o ToString(Val(o.quality))>> ELSE <<>>)
  \o (IF o.outputFile # Null THEN <<F_o, Val(o.outputFile)>> ELSE <<>>)
  \o (IF o.network # Null THEN <<F_n, Val(o.network)>> ELSE <<>>)
  \o (IF o.audioDeviceID # Null THEN <<F_a, Val(o.audioDeviceID)>> ELSE <<>>)
  \o (IF o.fileFormat # Null THEN <<F_fileFormat \o Val(o.fileFormat)>> ELSE <<>>)

\* C1: whatever the options and the order of the setter calls, the args of a
\* build are the flags of the set (non-null) options in the fixed order voice,
\* rate, quality, output file, network, audio device, file format, followed by
\* the positional tokens; an unset option contributes no token.
C1_ArgsInFixedOrder ==
  JustBuilt => Val(desc).args = C1_Expected(options) \o Suffix

\* C2: a stored quality of 0 counts as set, so the args of a build contain the
\* token --quality=0.
C2_QualityZeroEmitted ==
  (JustBuilt /\ options.quality = Some(0))
    => HasToken(Val(desc).args, F_quality \o <<"0">>)

\* C3: constructing with a rate below 1 (0 included) raises and yields no
\* instance; constructing with a rate of at least 1 succeeds and stores the
\* rate unchanged.
C3_RateBelowOneRejected ==
  (last.op = "new" /\ last.arg.rate # Null) =>
    IF Val(last.arg.rate) < 1
      THEN last.threw /\ ~inst
      ELSE ~last.threw /\ inst /\ options.rate = last.arg.rate

\* C4: in every state reached by construction (directly or through fromConfig)
\* followed by any setter calls, the stored rate is null or at least 1.
C4_RateUnsetOrPositive ==
  inst => (options.rate = Null \/ Val(options.rate) >= 1)

\* C5: constructing with a quality never raises because of the quality; an
\* input below 0 is stored and emitted as 1, an input above 127 is stored and
\* emitted as 127, and an input within [0,127] is stored unchanged.
C5_CtorQualityClamped ==
  (last.op = "new" /\ last.arg.quality # Null) =>
    LET q == Val(last.arg.quality)
        emitted == GetArgs(options, <<S_hi>>).args
    IN  /\ last.threw => (last.arg.rate # Null /\ Val(last.arg.rate) < 1)
        /\ (last.arg.rate = Null \/ Val(last.arg.rate) >= 1) => inst
        /\ (inst /\ q < 0) =>
              /\ options.quality = Some(1)
              /\ HasToken(emitted, F_quality \o <<"1">>)
        /\ (inst /\ q > 127) =>
              /\ options.quality = Some(127)
              /\ HasToken(emitted, F_quality \o <<"1", "2", "7">>)
        /\ (inst /\ q >= 0 /\ q <= 127) => options.quality = Some(q)

C5_Witness ==
  /\ last.op = "new" /\ inst
  /\ last.arg.quality = Some(-1)
  /\ options.quality = Some(1)

\* C6: a setter called with no argument leaves its field reading back as null,
\* and while a field is null no build carries a flag for it.
C6_UnsetReadsNullAndEmitsNoFlag ==
  /\ last.arg = Null =>
       /\ last.op = "setVoice" => options.voice = Null
       /\ last.op = "setRate" => options.rate = Null
       /\ last.op = "setQuality" => options.quality = Null
       /\ last.op = "setOutputFile" => options.outputFile = Null
       /\ last.op = "setNetwork" => options.network = Null
       /\ last.op = "setAudioDeviceID" => options.audioDeviceID = Null
       /\ last.op = "setFileFormat" => options.fileFormat = Null
  /\ JustBuilt =>
       /\ options.voice = Null => ~HasToken(OptionPart, F_v)
       /\ options.rate = Null => ~HasToken(OptionPart, F_r)
       /\ options.quality = Null => ~HasTokenWithPrefix(OptionPart, F_quality)
       /\ options.outputFile = Null => ~HasToken(OptionPart, F_o)
       /\ options.network = Null => ~HasToken(OptionPart, F_n)
       /\ options.audioDeviceID = Null => ~HasToken(OptionPart, F_a)
       /\ options.fileFormat = Null => ~HasTokenWithPrefix(OptionPart, F_fileFormat)

C6_Witness ==
  /\ last.op = "setQuality" /\ last.arg = Null
  /\ options.quality = Null /\ options.rate # Null
  /\ ~HasTokenWithPrefix(GetArgs(options, <<S_hi>>).args, F_quality)
  /\ HasToken(GetArgs(options, <<S_hi>>).args, F_r)

RECURSIVE C7_Offset(_, _)
\* the number of characters of the command that precede token i of args
C7_Offset(args, i) ==
  IF i = 1 THEN Len(S_say) + 1 ELSE C7_Offset(args, i - 1) + Len(args[i - 1]) + 1

\* C7: the command string is "say", then each element of args in order, every
\* element preceded by exactly one space, and nothing else.
C7_CommandIsSayThenArgs ==
  desc # Null =>
    LET a == Val(desc).args
        c == Val(desc).command
        n == Len(a)
    IN  /\ n >= 1
        /\ IsPrefix(S_say, c)
        /\ Len(c) = C7_Offset(a, n) + Len(a[n])
        /\ \A i \in 1..n :
             /\ c[C7_Offset(a, i)] = " "
             /\ SubSeq(c, C7_Offset(a, i) + 1, C7_Offset(a, i) + Len(a[i])) = a[i]

C7_Witness ==
  /\ JustBuilt
  /\ last.arg = S_hi
  /\ options.voice = Some(S_Al) /\ options.rate = Some(12)
  /\ Len(Val(desc).args) >= 5

\* C8: in the descriptor of say(), the args element after -v is the voice name
\* as configured, with no quote characters added.
C8_ArgsVoiceUnquoted ==
  (JustBuilt /\ last.op = "say" /\ options.voice # Null
     /\ HasToken(Val(desc).args, F_v)) =>
    \E i \in 1..(Len(Val(desc).args) - 1) :
       /\ Val(desc).args[i] = F_v
       /\ Val(desc).args[i + 1] = Val(options.voice)

----------------------------------------------------------------------------
(* Properties of the execution boundary *)

\* C9: building a descriptor never invokes the executor; the executor is
\* invoked only by a call of the exec handle, once per call, with program
\* `say` and exactly the args of the descriptor.
C9_ExecOnlyThroughHandle ==
  [][/\ last'.op \in BuildOps => calls' = calls
     /\ last'.op = "exec" =>
          /\ desc # Null
          /\ calls' = Append(calls, [prog |-> S_say, args |-> Val(desc).args])
     /\ calls' # calls => last'.op = "exec"]_vars

C9_Witness ==
  /\ last.op = "exec"
  /\ Len(calls) = 2
  /\ calls[1].args # calls[2].args
  /\ calls[2].args = Val(desc).args
  /\ GetArgs(options, <<S_hi>>).args # Val(desc).args

----------------------------------------------------------------------------
(* Properties of the catalog parser *)

\* some substring of the line has the shape of a locale
C10_HasLocale(line) ==
  \E i \in 1..Len(line) :
    /\ i + 4 <= Len(line)
    /\ line[i] \in LowerCase /\ line[i + 1] \in LowerCase
    /\ line[i + 2] = "_"
    /\ line[i + 3] \in UpperCase /\ line[i + 4] \in UpperCase

\* a successful catalog output has just been parsed for caller last.arg.p
JustParsed == last.op = "getVoicesResume" /\ last.arg.output.success

\* C10: getVoices yields exactly one Voice per line that contains a locale
\* match and none for any other line, without error, in the order of the lines.
C10_OneVoicePerMatchingLine ==
  JustParsed =>
    LET matching == SelectSeq(last.arg.output.lines, C10_HasLocale)
        r == ret[last.arg.p]
    IN  /\ r.kind = "voices"
        /\ Len(r.voices) = Len(matching)
        /\ \A i \in 1..Len(matching) : r.voices[i] = ParseLine(matching[i])

C10_Witness ==
  /\ JustParsed
  /\ Len(last.arg.output.lines) = 2
  /\ ~C10_HasLocale(last.arg.output.lines[1])
  /\ Len(last.arg.output.lines[1]) > 0
  /\ C10_HasLocale(last.arg.output.lines[2])
  /\ Len(ret[last.arg.p].voices) = 1
  /\ ret[last.arg.p].voices[1].locale = S_locale1

\* the index of the first locale-shaped substring of a line that has one
C11_FirstLocale(line) ==
  CHOOSE i \in 1..Len(line) :
    /\ MatchesAt(line, i)
    /\ \A j \in 1..(i - 1) : ~MatchesAt(line, j)

\* the Voice C11 states for a line that has a locale match
C11_Expected(line) ==
  LET i == C11_FirstLocale(line)
  IN  [name |-> Trim(SubSeq(line, 1, i - 1)),
       locale |-> SubSeq(line, i, i + 4),
       example |-> StripMarker(Trim(SubSeq(line, i + 5, Len(line))))]

\* C11: for every line with a locale match, the Voice's locale is the first
\* match, its name the whole text before it, trimmed, and its example the
\* whole text after it, trimmed, less one leading "# " marker.
C11_VoiceFieldsOfLine ==
  JustParsed =>
    LET matching == SelectSeq(last.arg.output.lines, C10_HasLocale)
        r == ret[last.arg.p]
    IN  /\ Len(r.voices) = Len(matching)
        /\ \A i \in 1..Len(matching) : r.voices[i] = C11_Expected(matching[i])

IsSuffix(t, s) == Len(t) <= Len(s) /\ SubSeq(s, Len(s) - Len(t) + 1, Len(s)) = t

\* the executor has just reported failure to the getVoices call of last.arg.p
JustFailed == last.op = "getVoicesResume" /\ ~last.arg.output.success

\* C12: when the executor reports non-success, getVoices raises an error of
\* kind VOICES_FETCH_ERROR whose message carries the executor's error text
\* verbatim, and no Voice list is returned.
C12_FetchFailureRaises ==
  JustFailed =>
    LET r == ret[last.arg.p]
    IN  /\ last.threw
        /\ r.kind = "error"
        /\ r.code = "VOICES_FETCH_ERROR"
        /\ IsSuffix(last.arg.output.errorText, r.error)
        /\ Len(r.error) > Len(last.arg.output.errorText)
        /\ r.voices = <<>>

C12_Witness ==
  /\ JustFailed
  /\ Len(last.arg.output.lines) = 1
  /\ C10_HasLocale(last.arg.output.lines[1])
  /\ Len(last.arg.output.errorText) > 0
  /\ ret[last.arg.p].kind = "error"

----------------------------------------------------------------------------
(* Properties of the catalog cache *)

\* this step is the start of a getVoices call
StartsGetVoices == last'.op = "getVoices"

\* C13: a getVoices call that starts after another one has returned a
\* catalog, less than the time-to-live after that one started and with no
\* clearVoicesCache since it returned, does not invoke the executor (the
\* two calls together invoke it at most once).  Stated for a first call that
\* returned a catalog, the case the claim is most plainly about.
C13_AtMostOneFetchWithinTTL ==
  [][(/\ StartsGetVoices
      /\ hist.fetched # Null
      /\ now - Val(hist.fetched) < CACHE_DURATION)
     => calls' = calls]_vars

\* C14: the first getVoices call that starts after a clearVoicesCache, and
\* every getVoices call that starts CACHE_DURATION or more after the cached
\* timestamp, invokes the executor instead of returning the cached catalog.
C14_StaleNeverServed ==
  [][(/\ StartsGetVoices
      /\ \/ hist.cleared
         \/ voicesCache # Null /\ now - voicesCacheTime >= CACHE_DURATION)
     => calls' = Append(calls, VoicesCommand)]_vars

\* C15: a getVoices call made immediately after a getVoices call that
\* returned a catalog consults the executor (so that it rejects with the
\* executor's error text when that output reports non-success) rather than
\* returning a catalog by itself.
C15_SecondCallConsultsExecutor ==
  [][(/\ last.op = "getVoicesResume" /\ ~last.threw
      /\ StartsGetVoices)
     => /\ ret'[last'.arg].kind # "voices"
        /\ gv'[last'.arg].pc = "await"]_vars

----------------------------------------------------------------------------
(* Properties of the validation *)

ValidateOps == {"validateOptions", "validateOptionsResume"}

\* validateOptions has just returned a ValidationResult to caller last.arg.p
JustValidated == last.op \in ValidateOps /\ ret[last.arg.p].kind = "validation"

\* the catalog a getVoices call returns now without invoking the executor
CurrentCatalog == IF CacheFresh(now) THEN Val(voicesCache) ELSE <<>>

\* the messages C16 states for the options o against a catalog
C16_Expected(o, catalog) ==
  (IF o.voice # Null /\ ~VoiceExists(catalog, Val(o.voice))
     THEN <<VoiceNotFoundMessage(Val(o.voice))>> ELSE <<>>)
    \o (IF o.rate # Null /\ Val(o.rate) < 1 THEN <<S_rateMessage>> ELSE <<>>)
    \o (IF o.quality # Null /\ (Val(o.quality) < 0 \/ Val(o.quality) > 127)
          THEN <<S_qualityMessage>> ELSE <<>>)

\* C16: validateOptions returns isValid = TRUE exactly when the rate is unset
\* or >= 1, the quality is unset or within [0,127], and the voice is unset or
\* the name of a voice of the current catalog; otherwise errors holds one
\* message per violated check, in the order voice, rate, quality.
C16_ValidExactlyWhenChecksPass ==
  (JustValidated /\ (options.voice = Null \/ CacheFresh(now))) =>
    LET r == ret[last.arg.p]
        expected == C16_Expected(options, CurrentCatalog)
    IN  /\ r.isValid = (Len(expected) = 0)
        /\ r.errors = expected

\* C17: validateOptions never throws; whenever it returns, it returns a
\* ValidationResult.
C17_ValidateNeverThrows ==
  last.op \in ValidateOps =>
    /\ ~last.threw
    /\ ret[last.arg.p].kind \in {"none", "validation"}

SetVoiceValidatedOps == {"setVoiceWithValidation", "setVoiceWithValidationResume"}

\* this step ends a setVoiceWithValidation call
EndsSetVoiceWithValidation ==
  last'.op \in SetVoiceValidatedOps /\ ret'[last'.arg.p].kind # "none"

\* this step ends a setVoiceWithValidation call whose catalog fetch failed
C19_FetchFailed ==
  last'.op = "setVoiceWithValidationResume" /\ ~last'.arg.output.success

\* what C19 states of a call that obtained a catalog: the catalog it obtained
\* is the one the cache holds after the step
C19_SetOrNotFound ==
  LET v == last'.arg.voice
      r == ret'[last'.arg.p]
  IN  /\ voicesCache' # Null
      /\ IF VoiceExists(Val(voicesCache'), v)
           THEN /\ r.kind = "instance"
                /\ options' = [options EXCEPT !.voice = Some(v)]
           ELSE /\ r.kind = "error" /\ r.code = "VOICE_NOT_FOUND"
                /\ options' = options

\* C19 as stated: setVoiceWithValidation(v) sets the stored voice to v only
\* when v is the name of a voice in the current catalog; otherwise it raises
\* voice-not-found and leaves every option as it was.
C19_SetsOnlyCatalogVoice ==
  [][EndsSetVoiceWithValidation => C19_SetOrNotFound]_vars

\* C19, amended: a setVoiceWithValidation(v) call that obtains the catalog
\* (from the cache or from a successful fetch) sets the stored voice to v when
\* v is the name of a voice in it, and otherwise raises voice-not-found and
\* leaves every option as it was; a call whose catalog fetch fails raises the
\* fetch error (VOICES_FETCH_ERROR) and leaves every option as it was.
C19_SetsOnlyCatalogVoiceOrFetchError ==
  [][EndsSetVoiceWithValidation =>
       IF C19_FetchFailed
         THEN /\ ret'[last'.arg.p].kind = "error"
              /\ ret'[last'.arg.p].code = "VOICES_FETCH_ERROR"
              /\ options' = options
         ELSE C19_SetOrNotFound]_vars

C19_Witness ==
  /\ last.op = "setVoiceWithValidationResume"
  /\ last.arg.output.success
  /\ ret[last.arg.p].kind = "error"
  /\ ret[last.arg.p].code = "VOICE_NOT_FOUND"
  /\ options.voice # Null
  /\ options.voice # Some(last.arg.voice)

----------------------------------------------------------------------------
(* Properties of the static say *)

\* the steps of a static say in which its validation can complete
StaticSayOps == {"staticSay", "staticSayFetched"}

\* the options of the instance the static say of this step works on
C18_Options ==
  IF last'.op = "staticSay" THEN Construct(last'.arg.options).options
  ELSE last'.arg.options

\* the validation of the static say completes in this step: the instance was
\* constructed and the catalog, if the voice needs it, is at hand
C18_Validated ==
  IF last'.op = "staticSay"
    THEN /\ ~CtorRateThrows(last'.arg.options.rate)
         /\ (~TruthyStr(last'.arg.options.voice) \/ CacheFresh(now))
    ELSE last'.arg.output.success

\* the validation that completes in this step reports an error
C18_Reported ==
  /\ C18_Validated
  /\ \/ /\ TruthyStr(C18_Options.voice)
        /\ ~VoiceExists(Val(voicesCache'), Val(C18_Options.voice))
     \/ C18_Options.rate # Null /\ Val(C18_Options.rate) < 1
     \/ /\ C18_Options.quality # Null
        /\ (Val(C18_Options.quality) < 0 \/ Val(C18_Options.quality) > 127)

\* C18: the static say validates before it executes: when the validation
\* reports an error the call rejects with an invalid-option error and never
\* invokes the speech command; the speech command is invoked only once the
\* validation has passed; with no option given the call invokes the executor
\* exactly once, for the speech command and not for the catalog, and resolves
\* with that output.
C18_StaticSayValidatesFirst ==
  [][/\ calls' # calls => last'.op \in StaticSayOps
     /\ last'.op \in StaticSayOps =>
          LET p == last'.arg.p
          IN  /\ ret'[p].kind = "error" => calls' = calls /\ gv'[p].pc = "idle"
              /\ C18_Reported =>
                   /\ ret'[p].kind = "error"
                   /\ ret'[p].code = "INVALID_OPTION"
              /\ gv'[p].pc = "staticSayExec" =>
                   /\ ~C18_Reported
                   /\ calls' = Append(calls,
                        [prog |-> S_say,
                         args |-> OptionArgs(C18_Options) \o <<last'.arg.text>>])
              /\ gv'[p].pc = "staticSayFetch" => calls' = Append(calls, VoicesCommand)
     /\ (last'.op = "staticSay" /\ last'.arg.options = DefaultOptions) =>
          /\ calls' = Append(calls, [prog |-> S_say, args |-> <<last'.arg.text>>])
          /\ gv'[last'.arg.p].pc = "staticSayExec"
     /\ last'.op = "staticSayDone" =>
          /\ calls' = calls
          /\ ret'[last'.arg.p] = [kind |-> "output", output |-> last'.arg.output]
          /\ gv'[last'.arg.p].pc = "idle"]_vars

C18_Witness ==
  /\ last.op = "staticSayFetched"
  /\ last.arg.output.success
  /\ TruthyStr(last.arg.options.voice)
  /\ ret[last.arg.p].kind = "error"
  /\ ret[last.arg.p].code = "INVALID_OPTION"
  /\ \A i \in 1..Len(calls) : calls[i] = VoicesCommand

----------------------------------------------------------------------------
(* Properties of the batch *)

\* the speech command sayBatch invokes for the k-th text of the batch b
C20_Command(b, k) == [prog |-> S_say, args |-> OptionArgs(b.options) \o <<b.texts[k]>>]

\* C20: sayBatch is strictly sequential: the invocation for an item starts
\* only when every earlier invocation of the batch has returned its output
\* and, with a positive delay, at least delayMs after the previous output
\* arrived; at most one invocation is in flight; and the outputs returned
\* are, in order, the outputs of the invocations for the texts in order.
C20_BatchStrictlySequential ==
  [][/\ calls' # calls =>
          LET b == gv'[1]
          IN  /\ b.pc = "batchExec"
              /\ calls' = Append(calls, C20_Command(b, b.i))
              /\ Len(b.outputs) = b.i - 1
              /\ \A k \in 1..(b.i - 1) : b.outputs[k].call < Len(calls')
              /\ (b.i > 1 /\ b.delayMs > 0) => now' - b.now >= b.delayMs
     /\ gv'[1].pc \in {"batchExec", "batchDelay"} =>
          Cardinality({n \in 1..Len(calls') :
                         /\ n > Len(calls') - gv'[1].i
                         /\ \A k \in 1..Len(gv'[1].outputs) : gv'[1].outputs[k].call # n})
            <= 1
     /\ (last'.op \in {"sayBatchOutput", "sayBatchTimer"} /\ gv'[1].pc = "idle") =>
          LET b == gv[1]
              outputs == ret'[1].outputs
          IN  /\ ret'[1].kind = "outputs"
              /\ Len(outputs) = Len(b.texts)
              /\ \A k \in 1..Len(outputs) : calls'[outputs[k].call] = C20_Command(b, k)
              /\ \A k \in 1..(Len(outputs) - 1) : outputs[k].call < outputs[k + 1].call
              /\ calls' = calls]_vars

C20_Witness ==
  /\ last.op = "sayBatchTimer"
  /\ ret[1].kind = "outputs"
  /\ Len(ret[1].outputs) = 3
  /\ calls[ret[1].outputs[1].call] = calls[ret[1].outputs[3].call]
  /\ calls[ret[1].outputs[1].call] # calls[ret[1].outputs[2].call]
  /\ now > DefaultDelayMs + DefaultDelayMs

\* C21: when the speech command of an item reports non-success, sayBatch
\* ends there with the failure: it raises to its caller, invokes nothing for
\* the later items and returns no list of outputs.
C21_BatchFailureAborts ==
  [][(last'.op = "sayBatchOutput" /\ ~last'.arg.output.success) =>
       /\ ret'[1].kind = "error"
       /\ gv'[1].pc = "idle"
       /\ calls' = calls]_vars

\* C28: with delayMs > 0 the delay is waited only between consecutive items:
\* no timer is set after the output of the last item, and a batch of n texts
\* that returns has waited exactly max(0, n - 1) delays.
C28_DelaysOnlyBetweenItems ==
  [][(gv[1].pc \in {"batchExec", "batchDelay"} /\ gv[1].delayMs > 0) =>
       /\ gv'[1].pc = "batchDelay" => gv'[1].i < Len(gv'[1].texts)
       /\ gv'[1].pc = "idle" => gv[1].delays = Max(0, Len(gv[1].texts) - 1)]_vars

----------------------------------------------------------------------------
(* Properties of the cache under concurrent callers *)

\* C27: the cache check, the fetch and the populate of getVoices act as one
\* atomic step for concurrent callers: a getVoices call that starts while
\* another one is awaiting the executor does not invoke the executor again.
C27_OneFetchForConcurrentCallers ==
  [][(StartsGetVoices /\ \E q \in Procs : gv[q].pc = "await") => calls' = calls]_vars

\* C29: a getVoices call that fails leaves the cached catalog and its
\* timestamp as they are; the cache slot is written only by a fetch that
\* succeeds, and emptied only by clearVoicesCache.
C29_FailedFetchLeavesCache ==
  [][/\ (last'.op = "getVoicesResume" /\ ~last'.arg.output.success) =>
          /\ voicesCache' = voicesCache
          /\ voicesCacheTime' = voicesCacheTime
          /\ ret'[last'.arg.p].kind = "error"
     /\ <<voicesCache, voicesCacheTime>>' # <<voicesCache, voicesCacheTime>> =>
          \/ last'.op = "clearVoicesCache"
          \/ last'.op = "getVoicesResume" /\ last'.arg.output.success]_vars

C29_Witness ==
  /\ last.op = "getVoicesResume"
  /\ ~last.arg.output.success
  /\ ret[last.arg.p].kind = "error"
  /\ voicesCache # Null
  /\ Len(Val(voicesCache)) > 0
  /\ ~CacheFresh(now)

----------------------------------------------------------------------------
(* Properties of the descriptor *)

SetterOps ==
  {"setVoice", "setRate", "setQuality", "setOutputFile", "setNetwork",
   "setAudioDeviceID", "setFileFormat"}

\* C30: a descriptor is a snapshot of the options at build time: a setter
\* call leaves the descriptor the caller holds as it is, the exec handle
\* passes the descriptor's args also after setter calls, and a build leaves
\* the options as they are and yields the descriptor of those options, so
\* that building again without a setter call in between yields an equal one.
C30_DescriptorIsSnapshot ==
  [][/\ last'.op \in SetterOps => desc' = desc
     /\ last'.op = "exec" =>
          /\ desc' = desc /\ options' = options
          /\ calls'[Len(calls')].args = Val(desc).args
     /\ last'.op \in BuildOps =>
          /\ options' = options
          /\ Val(desc').command = S_say \o S_space \o Join(Val(desc').args, S_space)
          /\ Val(desc').args =
               OptionArgs(options) \o
                 (IF last'.op = "say" THEN <<last'.arg>> ELSE <<F_f, last'.arg>>)
          /\ (last.op = last'.op /\ last.arg = last'.arg /\ desc # Null) => desc' = desc]_vars

C30_Witness ==
  /\ last.op = "exec"
  /\ desc # Null
  /\ options.voice = Null
  /\ options.rate # Null
  /\ HasToken(Val(desc).args, F_v)
  /\ ~HasToken(Val(desc).args, F_r)
  /\ calls[Len(calls)].args = Val(desc).args

----------------------------------------------------------------------------
(* Properties of the rate and quality setters *)

\* C24: the rate and quality setters clamp and never raise: setRate(r) stores
\* max(1, r) and setQuality(q) stores min(127, max(0, q)) for every integer,
\* and after any setter call a stored rate is at least 1 and a stored quality
\* is within 0..127.
C24_SettersClamp ==
  last.op \in SetterOps =>
    /\ ~last.threw
    /\ (last.op = "setRate" /\ last.arg # Null) =>
         options.rate = Some(IF Val(last.arg) < 1 THEN 1 ELSE Val(last.arg))
    /\ (last.op = "setQuality" /\ last.arg # Null) =>
         options.quality =
           Some(IF Val(last.arg) < 0 THEN 0
                ELSE IF Val(last.arg) > 127 THEN 127 ELSE Val(last.arg))
    /\ options.rate # Null => Val(options.rate) >= 1
    /\ options.quality # Null => Val(options.quality) \in 0..127

----------------------------------------------------------------------------
(* Properties of fromConfig *)

\* C25: fromConfig(config) raises when the config's defaultRate is below 1,
\* and otherwise returns an instance whose voice, rate, quality and
\* audioDeviceID are the config's defaults (unset when absent, a quality of 0
\* kept as 0) and whose outputFile, network and fileFormat are unset.  Stated
\* for configs with a nonempty voice name and a quality within 0..127.
C25_FromConfigCopiesDefaults ==
  (/\ last.op = "fromConfig"
   /\ last.arg.defaultVoice # Some(S_empty)
   /\ last.arg.defaultQuality # Null => Val(last.arg.defaultQuality) \in 0..127) =>
    IF last.arg.defaultRate # Null /\ Val(last.arg.defaultRate) < 1
      THEN last.threw
      ELSE /\ ~last.threw
           /\ inst
           /\ options.voice = last.arg.defaultVoice
           /\ options.rate = last.arg.defaultRate
           /\ options.quality = last.arg.defaultQuality
           /\ options.audioDeviceID = last.arg.defaultAudioDevice
           /\ options.outputFile = Null
           /\ options.network = Null
           /\ options.fileFormat = Null

----------------------------------------------------------------------------
(* Properties of the duration estimate *)

\* the words of a text: the maximal runs of characters that are not white space
WordCount(text) ==
  Cardinality({i \in 1..Len(text) :
                 /\ text[i] \notin WhiteSpace
                 /\ i = 1 \/ text[i - 1] \in WhiteSpace})

\* C26: estimateDuration(text, rate) is round(W * 60000 / rate) where W is the
\* number of white-space separated words of text, so a text without words
\* (empty, or white space only) yields 0.
C26_LinearInWordCount ==
  last.op = "estimateDuration" =>
    LET rate == IF last.arg.rate = Null THEN 150 ELSE Val(last.arg.rate)
        W == WordCount(last.arg.text)
    IN  /\ 2 * rate * ret[1].ms <= 2 * W * 60000 + rate
        /\ 2 * W * 60000 - rate < 2 * rate * ret[1].ms
        /\ W = 0 => ret[1].ms = 0

----------------------------------------------------------------------------
(* Properties of the default voice *)

DefaultVoiceEnds ==
  /\ last.op \in {"getDefaultVoicePref", "getDefaultVoiceFetched"}
  /\ gv[last.arg.p].pc = "idle"

\* C22: getDefaultVoice always returns a voice name and never raises: the
\* trimmed first line of the preference read when that read succeeds (with a
\* nonempty line), otherwise the first cataloged voice's name, and "Alex" when
\* the preference read and the catalog fetch both fail.
C22_DefaultVoiceNeverRaises ==
  DefaultVoiceEnds =>
    LET r == ret[last.arg.p]
        out == last.arg.output
    IN  /\ ~last.threw
        /\ r.kind = "voiceName"
        /\ Len(r.name) > 0
        /\ (last.op = "getDefaultVoicePref" /\ out.success /\ Len(out.lines) > 0
              /\ Len(Trim(out.lines[1])) > 0) => r.name = Trim(out.lines[1])
        /\ (last.op = "getDefaultVoiceFetched" /\ out.success /\ Len(out.lines) > 0) =>
             r.name = Val(voicesCache)[1].name
        /\ (last.op = "getDefaultVoiceFetched" /\ ~out.success) => r.name = S_Alex

----------------------------------------------------------------------------
(* Properties of the configuration file *)

\* the content of a JSON value
Payload(v) ==
  IF v.t = "string" THEN v.s
  ELSE IF v.t = "number" THEN v.n
  ELSE IF v.t = "boolean" THEN v.b
  ELSE v.t

Field(v, key) == IF HasMember(v, key) THEN Some(Payload(Member(v, key))) ELSE Null

\* a loaded config, field by field
ConfigFields(v) ==
  [defaultVoice |-> Field(v, S_defaultVoice),
   defaultRate |-> Field(v, S_defaultRate),
   defaultQuality |-> Field(v, S_defaultQuality),
   defaultAudioDevice |-> Field(v, S_defaultAudioDevice),
   cacheVoices |-> Field(v, S_cacheVoices),
   cacheDuration |-> Field(v, S_cacheDuration),
   autoValidate |-> Field(v, S_autoValidate)]

DefinedFields(c) == Cardinality({f \in DOMAIN c : c[f] # Null})

====
